---- MODULE Spec2Model ----
(***************************************************************************)
(* Model of FBXDocument (src/fbx_document.cpp): the skin/skeleton          *)
(* resolver, the buffer codec, the animation baker and the document        *)
(* extension hook loops.                                                   *)
(*                                                                         *)
(* Conventions.  C++ vectors are TLA+ sequences; a C++ index i is the      *)
(* TLA+ position i+1, and Find returns the C++ (0-based) index or -1.      *)
(* Node indices are 0..NumNodes-1 and -1 is "no node".                     *)
(***************************************************************************)
EXTENDS Integers, Sequences, FiniteSets, TLC

\* ------------------------------------------------------------------ bounds
NumNodes == 4
MaxSkins == 2
MaxJoints == 3
\* a document with two or more skins lists at most this many joints in all
MaxSharedJoints == 2
\* the encoder calls of a run, and the longest array encoded
MaxAccessors == 2
MaxArrayLen == 2
\* the largest element count of a parsed accessor
MaxCount == 2
\* animation time is counted in ticks of 1 / TicksPerSecond seconds
TicksPerSecond == 4
\* the keys of the baked channel
NumKeys == 2
\* the document extensions that can be registered
NumExtensions == 2
MaxLength == 5
MaxDedupSkins == 3
MaxVertices == 2
MaxTriangles == 2
MaxPasses == 2
MaxGenerated == 7
NumTracks == 2
\* the width, in bits, the height counter of a node is kept at
HeightWidth == 3

Nodes == 0..(NumNodes - 1)
NoNode == -1

VARIABLES
    doc,        \* the parsed JSON: [children, skinned, skins]
    nodes,      \* p_state->nodes: node index -> FBXNode record
    skins,      \* p_state->skins: sequence of FBXSkin records
    skeletons,  \* p_state->skeletons: sequence of FBXSkeleton records
    pc,         \* position of _parse_fbx_state
    err,        \* the Error _parse_fbx_state returned ("OK" while running)
    ran,        \* the stages _parse_fbx_state has called, in order
    buffers,       \* p_state->buffers: sequence of byte sequences
    buffer_views,  \* p_state->buffer_views
    accessors,     \* p_state->accessors
    encoded,       \* what each encoder call was given and what it returned
    decoded,       \* the last _decode_accessor call and its outcome
    anim,       \* the FBXAnimation: one node track with a position channel
    bake,       \* _import_animation: its arguments, locals and the baked keys
    convert,    \* a baking loop over a whole track: its locals, its keys
                \* and the number of passes begun, modulo 2
    all_document_extensions,  \* the registered extensions, in call order
    document_extensions,      \* the extensions active in the running import
    calls,                    \* the hook calls made: [hook, ext, result]
    op,                       \* the running operation: [name, pc, i, result]
    mesh,       \* one mesh primitive in _parse_meshes: the decoded accessors,
                \* the arrays made of them, the number of passes over the indices
    walk        \* _parse_nodes over any children arrays: the arrays, the
                \* parents, and the locals of _compute_node_heights

skinVars == <<doc, nodes, skins, skeletons, pc, err, ran>>
bufVars == <<buffers, buffer_views, accessors, encoded, decoded>>
animVars == <<anim, bake, convert>>
extVars == <<all_document_extensions, document_extensions, calls, op>>
meshVars == <<mesh>>
walkVars == <<walk>>
vars == <<skinVars, bufVars, animVars, extVars, meshVars, walkVars>>

\* -------------------------------------------- parts of the state not in use
NoDecode ==
    [accessor |-> -1, for_vertex |-> FALSE, err |-> "OK", values |-> <<>>, reads |-> <<>>,
     oob |-> FALSE]

NoAnim == [times |-> <<>>, values |-> <<>>, interpolation |-> "LINEAR", rotation_times |-> <<>>]

NoBake ==
    [pc |-> "idle", fps |-> 1, trimming |-> FALSE, anim_start |-> 0, anim_end |-> 0,
     time |-> 0, last |-> FALSE, samples |-> <<>>]

NoMesh ==
    [pc |-> "idle", weights_0 |-> <<>>, weights_1 |-> <<>>, weights |-> <<>>,
     decoded_indices |-> <<>>, indices |-> <<>>, passes |-> 0,
     vertices |-> 0, overrun |-> <<>>]

NoOp ==
    [name |-> "none", pc |-> "idle", i |-> 0, result |-> "none",
     extensions_required |-> {}, supported_extensions |-> {}, parsed |-> <<>>]

SkinIdle ==
    /\ doc = <<>> /\ nodes = <<>> /\ skins = <<>> /\ skeletons = <<>>
    /\ pc = "idle" /\ err = "OK" /\ ran = <<>>

BufIdle ==
    /\ buffers = <<>> /\ buffer_views = <<>> /\ accessors = <<>>
    /\ encoded = <<>> /\ decoded = NoDecode

NoConvert ==
    [pc |-> "idle", loop |-> "none", increment |-> 1, anim_end |-> 0, interpolate |-> "OK",
     time |-> 0, last |-> FALSE, times |-> <<>>, passes |-> 0]

AnimIdle == anim = NoAnim /\ bake = NoBake /\ convert = NoConvert

ExtIdle ==
    /\ all_document_extensions = <<>> /\ document_extensions = <<>>
    /\ calls = <<>> /\ op = NoOp

MeshIdle == mesh = NoMesh

NoWalk ==
    [pc |-> "idle", children |-> <<>>, parent |-> <<>>, height |-> <<>>,
     root_nodes |-> <<>>, node_i |-> 0, current_i |-> 0]

WalkIdle == walk = NoWalk

\* ------------------------------------------------------------- sequences
\* Body of the value x: a value the code holds in a local variable is
\* computed once and named in Body
With(x, Body(_)) == Body(x)

Range(s) == {s[i] : i \in 1..Len(s)}

\* Vector<T>::find: the 0-based index of the first occurrence, or -1.
Find(s, x) ==
    IF \E i \in 1..Len(s) : s[i] = x
    THEN (CHOOSE i \in 1..Len(s) : s[i] = x /\ \A j \in 1..(i - 1) : s[j] # x) - 1
    ELSE -1

RECURSIVE SortedSeqOf(_)
\* The ascending sequence of a finite set of integers.
SortedSeqOf(S) ==
    IF S = {} THEN <<>>
    ELSE LET m == CHOOSE x \in S : \A y \in S : x <= y
         IN <<m>> \o SortedSeqOf(S \ {m})

RECURSIVE InsertSorted(_, _)
InsertSorted(s, x) ==
    IF s = <<>> THEN <<x>>
    ELSE IF x < Head(s) THEN <<x>> \o s
    ELSE <<Head(s)>> \o InsertSorted(Tail(s), x)

RECURSIVE SortAsc(_)
\* Vector<int>::sort / List<int>::sort: ascending, duplicates kept.
SortAsc(s) == IF s = <<>> THEN <<>> ELSE InsertSorted(SortAsc(Tail(s)), Head(s))

\* ---------------------------------------------------------- DisjointSet
\* core/math/disjoint_set.h: union by rank over a map that iterates in
\* insertion order.  Path compression changes no root and no rank, so
\* DSRoot follows the parent links without rewriting them.
DSEmpty == [elems |-> <<>>, par |-> [n \in Nodes |-> n], rank |-> [n \in Nodes |-> 0]]

DSInsert(ds, x) ==
    IF Find(ds.elems, x) >= 0 THEN ds ELSE [ds EXCEPT !.elems = Append(@, x)]

RECURSIVE DSRoot(_, _)
DSRoot(ds, x) == IF ds.par[x] = x THEN x ELSE DSRoot(ds, ds.par[x])

DSUnion(ds, a, b) ==
    LET d  == DSInsert(DSInsert(ds, a), b)
        xr == DSRoot(d, a)
        yr == DSRoot(d, b)
        hi == IF d.rank[xr] < d.rank[yr] THEN yr ELSE xr
        lo == IF d.rank[xr] < d.rank[yr] THEN xr ELSE yr
    IN IF xr = yr THEN d
       ELSE [d EXCEPT !.par[lo] = hi,
                      !.rank[hi] = IF d.rank[hi] = d.rank[lo] THEN @ + 1 ELSE @]

DSRepresentatives(ds) == SelectSeq(ds.elems, LAMBDA e : ds.par[e] = e)

DSMembers(ds, rep) == SelectSeq(ds.elems, LAMBDA e : DSRoot(ds, e) = rep)

\* ------------------------------------------------------------- documents
\* A document lists, per node, its children array, whether the node is a
\* skinned mesh instance (mesh >= 0 and skin >= 0), and the skins' joints.
ParentOfDoc(children, c) ==
    \* _parse_nodes "build the hierarchy": the lowest-indexed node listing c.
    IF \E p \in Nodes : Find(children[p], c) >= 0
    THEN CHOOSE p \in Nodes : Find(children[p], c) >= 0
                              /\ \A q \in Nodes : Find(children[q], c) >= 0 => p <= q
    ELSE NoNode

RECURSIVE HeightOf(_, _)
\* _compute_node_heights: the number of parent links above node n.
HeightOf(par, n) == IF par[n] = NoNode THEN 0 ELSE 1 + HeightOf(par, par[n])

_parse_nodes(d) ==
    LET par == [n \in Nodes |-> ParentOfDoc(d.children, n)]
    IN [n \in Nodes |->
          [parent   |-> par[n],
           children |-> d.children[n],
           height   |-> HeightOf(par, n),
           joint    |-> FALSE,
           skeleton |-> -1,
           skinned  |-> d.skinned[n],
           name     |-> d.names[n]]]

\* _find_highest_node: the first node of the subset with the least height.
RECURSIVE FindHighestFrom(_, _, _, _, _)
FindHighestFrom(ns, subset, i, highest, best) ==
    IF i > Len(subset) THEN best
    ELSE IF highest = -1 \/ ns[subset[i]].height < highest
         THEN FindHighestFrom(ns, subset, i + 1, ns[subset[i]].height, subset[i])
         ELSE FindHighestFrom(ns, subset, i + 1, highest, best)

_find_highest_node(ns, subset) == FindHighestFrom(ns, subset, 1, -1, -1)

\* ------------------------------------------------------- skin expansion
\* The joint / non-joint classification both climbing loops of
\* _capture_nodes_for_multirooted_skin and _capture_nodes_in_skin apply.
PushNode(ns, sk, n) ==
    IF ns[n].joint /\ Find(sk.joints, n) < 0
    THEN [sk EXCEPT !.joints = Append(@, n)]
    ELSE IF Find(sk.non_joints, n) < 0
         THEN [sk EXCEPT !.non_joints = Append(@, n)]
         ELSE sk

RECURSIVE UnionWithParents(_, _, _, _)
\* for each listed node: insert it, and union it with its parent when the
\* parent is listed too.
UnionWithParents(ns, list, i, ds) ==
    IF i > Len(list) THEN ds
    ELSE UnionWithParents(ns, list, i + 1,
             IF Find(list, ns[list[i]].parent) >= 0
             THEN DSUnion(DSInsert(ds, list[i]), ns[list[i]].parent, list[i])
             ELSE DSInsert(ds, list[i]))

RECURSIVE MinRootHeight(_, _, _, _)
MinRootHeight(ns, roots, i, maxHeight) ==
    IF i > Len(roots) THEN maxHeight
    ELSE IF maxHeight = -1 \/ ns[roots[i]].height < maxHeight
         THEN MinRootHeight(ns, roots, i + 1, ns[roots[i]].height)
         ELSE MinRootHeight(ns, roots, i + 1, maxHeight)

RECURSIVE ClimbToHeight(_, _, _, _)
\* while (nodes[current_node]->height > maxHeight): step to the parent.
\* Indexing nodes with -1 aborts the program (crash).
ClimbToHeight(ns, sk, cur, maxHeight) ==
    IF ns[cur].height > maxHeight
    THEN IF ns[cur].parent = NoNode
         THEN [skin |-> sk, node |-> cur, crash |-> TRUE]
         ELSE ClimbToHeight(ns, PushNode(ns, sk, ns[cur].parent), ns[cur].parent, maxHeight)
    ELSE [skin |-> sk, node |-> cur, crash |-> FALSE]

RECURSIVE LevelRoots(_, _, _, _, _)
LevelRoots(ns, sk, roots, i, maxHeight) ==
    IF i > Len(roots) THEN [skin |-> sk, roots |-> roots, crash |-> FALSE]
    ELSE With(ClimbToHeight(ns, sk, roots[i], maxHeight), LAMBDA r :
             IF r.crash THEN [skin |-> r.skin, roots |-> roots, crash |-> TRUE]
             ELSE LevelRoots(ns, r.skin, [roots EXCEPT ![i] = r.node], i + 1, maxHeight))

RECURSIVE StepRootsUp(_, _, _, _)
\* one lock-step climb: every root is replaced by its parent.
StepRootsUp(ns, sk, roots, i) ==
    IF i > Len(roots) THEN [skin |-> sk, roots |-> roots, crash |-> FALSE]
    ELSE LET parent == ns[roots[i]].parent
         IN IF parent = NoNode THEN [skin |-> sk, roots |-> roots, crash |-> TRUE]
            ELSE StepRootsUp(ns, PushNode(ns, sk, parent), [roots EXCEPT ![i] = parent], i + 1)

\* Variant that leaves the levelled roots where they are.
NoCommonParentClimb(ns, sk, roots) == [skin |-> sk, roots |-> roots, crash |-> FALSE]

RECURSIVE ClimbToCommonParent(_, _, _)
\* do { ... } while (!all_same)
ClimbToCommonParent(ns, sk, roots) ==
    IF \A i \in 2..Len(roots) : ns[roots[i]].parent = ns[roots[1]].parent
    THEN [skin |-> sk, roots |-> roots, crash |-> FALSE]
    ELSE With(StepRootsUp(ns, sk, roots, 1), LAMBDA r :
             IF r.crash THEN r ELSE ClimbToCommonParent(ns, r.skin, r.roots))

\* Variant that captures nothing for a multi-rooted skin.
NoMultirootCapture(ns, sk) == [skin |-> sk, crash |-> FALSE]

_capture_nodes_for_multirooted_skin(ns, sk) ==
    With(DSRepresentatives(UnionWithParents(ns, sk.joints, 1, DSEmpty)), LAMBDA roots :
        IF Len(roots) <= 1 THEN [skin |-> sk, crash |-> FALSE]
        ELSE With(LevelRoots(ns, sk, roots, 1, MinRootHeight(ns, roots, 1, -1)), LAMBDA lv :
                 IF lv.crash THEN [skin |-> lv.skin, crash |-> TRUE]
                 ELSE With(ClimbToCommonParent(ns, lv.skin, lv.roots), LAMBDA cl :
                          [skin |-> cl.skin, crash |-> cl.crash])))

RECURSIVE _capture_nodes_in_skin(_, _, _)
RECURSIVE CaptureChildren(_, _, _, _, _)
\* the loop over the children of node n: found_joint |= capture(child)
CaptureChildren(ns, sk, n, i, found) ==
    IF i > Len(ns[n].children) THEN [skin |-> sk, found |-> found]
    ELSE With(_capture_nodes_in_skin(ns, sk, ns[n].children[i]), LAMBDA r :
             CaptureChildren(ns, r.skin, n, i + 1, found \/ r.found))

_capture_nodes_in_skin(ns, sk, n) ==
    With(CaptureChildren(ns, sk, n, 1, FALSE), LAMBDA c :
        With(IF c.found THEN PushNode(ns, c.skin, n) ELSE c.skin, LAMBDA sk2 :
            [skin |-> sk2, found |-> Find(sk2.joints, n) > 0]))

RECURSIVE CaptureRoots(_, _, _, _)
CaptureRoots(ns, sk, roots, i) ==
    IF i > Len(roots) THEN sk
    ELSE CaptureRoots(ns, _capture_nodes_in_skin(ns, sk, roots[i]).skin, roots, i + 1)

RECURSIVE HighestOfSets(_, _, _, _)
\* for every representative: the highest node of its member set.
HighestOfSets(ns, ds, owners, i) ==
    IF i > Len(owners) THEN <<>>
    ELSE <<_find_highest_node(ns, DSMembers(ds, owners[i]))>>
         \o HighestOfSets(ns, ds, owners, i + 1)

\* The sorted roots of the connected components of joints ++ non_joints.
SkinRoots(ns, sk) ==
    With(UnionWithParents(ns, sk.joints \o sk.non_joints, 1, DSEmpty), LAMBDA ds :
        SortAsc(HighestOfSets(ns, ds, DSRepresentatives(ds), 1)))

_expand_skin(ns, sk) ==
    With(_capture_nodes_for_multirooted_skin(ns, sk), LAMBDA m :
        IF m.crash THEN [skin |-> m.skin, result |-> "CRASH"]
        ELSE With(SkinRoots(ns, m.skin), LAMBDA out_roots :
                 IF \E i \in 1..Len(out_roots) : out_roots[i] < 0
                 THEN [skin |-> m.skin, result |-> "FAILED"]
                 ELSE [skin |-> [CaptureRoots(ns, m.skin, out_roots, 1) EXCEPT !.roots = out_roots],
                       result |-> "OK"]))

_verify_skin(ns, sk) ==
    With(SkinRoots(ns, sk), LAMBDA out_roots :
        IF Len(out_roots) = 0 THEN "FAILED"
        ELSE IF Len(out_roots) # Len(sk.roots) THEN "FAILED"
        ELSE IF \E i \in 1..Len(out_roots) : out_roots[i] # sk.roots[i] THEN "FAILED"
        ELSE IF Len(out_roots) = 1 THEN "OK"
        ELSE IF \E i \in 2..Len(out_roots) :
                   ns[out_roots[i]].parent # ns[out_roots[1]].parent THEN "FAILED"
        ELSE "OK")

\* ---------------------------------------------------------- _parse_skins
NewSkin(jointList) ==
    [joints |-> jointList, joints_original |-> jointList, non_joints |-> <<>>,
     roots |-> <<>>, skeleton |-> -1, joint_i_to_bone_i |-> <<>>,
     godot_skin |-> [id |-> -1, binds |-> <<>>]]

\* first loop: create the base skins and mark the nodes that are joints.
MarkJoints(ns, docSkins) ==
    [n \in Nodes |->
       [ns[n] EXCEPT !.joint = \E i \in 1..Len(docSkins) : Find(docSkins[i], n) >= 0]]

RECURSIVE ExpandSkinsIgnoringFailures(_, _, _)
\* Variant that expands every skin and reports no failure.
ExpandSkinsIgnoringFailures(ns, sks, i) ==
    IF i > Len(sks) THEN [skins |-> sks, result |-> "OK"]
    ELSE LET e == _expand_skin(ns, sks[i])
         IN ExpandSkinsIgnoringFailures(ns, [sks EXCEPT ![i] = e.skin], i + 1)

RECURSIVE ExpandSkins(_, _, _)
\* second loop: expand and verify every skin, stopping at the first failure.
ExpandSkins(ns, sks, i) ==
    IF i > Len(sks) THEN [skins |-> sks, result |-> "OK"]
    ELSE With(_expand_skin(ns, sks[i]), LAMBDA e :
             IF e.result = "CRASH" THEN [skins |-> [sks EXCEPT ![i] = e.skin], result |-> "CRASH"]
             ELSE IF e.result # "OK"
                  THEN [skins |-> [sks EXCEPT ![i] = e.skin], result |-> "ERR_PARSE_ERROR"]
             ELSE IF _verify_skin(ns, e.skin) # "OK"
                  THEN [skins |-> [sks EXCEPT ![i] = e.skin], result |-> "ERR_PARSE_ERROR"]
             ELSE ExpandSkins(ns, [sks EXCEPT ![i] = e.skin], i + 1))

_parse_skins(ns, docSkins) ==
    With(MarkJoints(ns, docSkins), LAMBDA marked :
        With(ExpandSkins(marked, [i \in 1..Len(docSkins) |-> NewSkin(docSkins[i])], 1), LAMBDA x :
            [nodes |-> marked, skins |-> x.skins, result |-> x.result]))

\* ---------------------------------------------------- _determine_skeletons
RECURSIVE _recurse_children(_, _, _, _)
RECURSIVE RecurseChildList(_, _, _, _, _)
RecurseChildList(ns, n, i, all, visited) ==
    IF i > Len(ns[n].children) THEN [all |-> all, visited |-> visited]
    ELSE With(_recurse_children(ns, ns[n].children[i], all, visited), LAMBDA r :
             RecurseChildList(ns, n, i + 1, r.all, r.visited))

_recurse_children(ns, n, all, visited) ==
    IF n \in visited THEN [all |-> all, visited |-> visited]
    ELSE With(RecurseChildList(ns, n, 1, all, visited \cup {n}), LAMBDA r :
             [all |-> IF ~ns[n].skinned \/ Len(ns[n].children) > 0
                      THEN r.all \cup {n} ELSE r.all,
              visited |-> r.visited])

RECURSIVE CollectSkinNodes(_, _, _, _, _)
\* all_skin_nodes of one skin: every listed node and what _recurse_children
\* sweeps in below it.
CollectSkinNodes(ns, list, i, all, visited) ==
    IF i > Len(list) THEN [all |-> all, visited |-> visited]
    ELSE With(_recurse_children(ns, list[i], all \cup {list[i]}, visited), LAMBDA r :
             CollectSkinNodes(ns, list, i + 1, r.all, r.visited))

RECURSIVE UnionInSet(_, _, _, _, _)
UnionInSet(ns, order, all, i, ds) ==
    IF i > Len(order) THEN ds
    ELSE UnionInSet(ns, order, all, i + 1,
             IF ns[order[i]].parent \in all
             THEN DSUnion(DSInsert(ds, order[i]), ns[order[i]].parent, order[i])
             ELSE DSInsert(ds, order[i]))

RECURSIVE UnionRoots(_, _, _)
UnionRoots(roots, i, ds) ==
    IF i > Len(roots) THEN ds
    ELSE UnionRoots(roots, i + 1, DSUnion(ds, roots[1], roots[i]))

RECURSIVE SkeletonSetsOfSkins(_, _, _, _)
\* the first loop of _determine_skeletons, over the skins.
SkeletonSetsOfSkins(ns, sks, i, ds) ==
    IF i > Len(sks) THEN ds
    ELSE With(CollectSkinNodes(ns, sks[i].joints, 1, {}, {}), LAMBDA a :
         With(CollectSkinNodes(ns, sks[i].non_joints, 1, a.all, a.visited), LAMBDA b :
             SkeletonSetsOfSkins(ns, sks, i + 1,
                 UnionRoots(sks[i].roots, 2,
                            UnionInSet(ns, SortedSeqOf(b.all), b.all, 1, ds)))))

RECURSIVE AttachSiblings(_, _, _, _, _)
\* for (j = i + 1; j < highest.size(); ++j): union siblings.
AttachSiblings(ns, highest, i, j, ds) ==
    IF j > Len(highest) THEN ds
    ELSE AttachSiblings(ns, highest, i, j + 1,
             IF ns[highest[i]].parent = ns[highest[j]].parent
             THEN DSUnion(ds, highest[i], highest[j]) ELSE ds)

RECURSIVE AttachParents(_, _, _, _, _, _)
\* for (j = 0; j < groups.size() && i != j; ++j): the loop ends when j
\* reaches i.
AttachParents(ns, highest, groups, i, j, ds) ==
    IF j > Len(groups) \/ i = j THEN ds
    ELSE AttachParents(ns, highest, groups, i, j + 1,
             IF Find(groups[j], ns[highest[i]].parent) >= 0
             THEN DSUnion(ds, highest[i], highest[j]) ELSE ds)

RECURSIVE AttachTouching(_, _, _, _, _)
AttachTouching(ns, highest, groups, i, ds) ==
    IF i > Len(highest) THEN ds
    ELSE With(AttachSiblings(ns, highest, i, i + 1, ds), LAMBDA d1 :
             AttachTouching(ns, highest, groups, i + 1,
                 IF ns[highest[i]].parent >= 0
                 THEN AttachParents(ns, highest, groups, i, 1, d1) ELSE d1))

JoinTouchingSubsets(ns, ds) ==
    With(DSRepresentatives(ds), LAMBDA reps :
        With([i \in 1..Len(reps) |-> DSMembers(ds, reps[i])], LAMBDA groups :
            AttachTouching(ns, [i \in 1..Len(reps) |-> _find_highest_node(ns, groups[i])],
                           groups, 1, ds)))

RECURSIVE SubtreeSet(_, _, _, _)
SubtreeSet(ns, non_joints, i, ds) ==
    IF i > Len(non_joints) THEN ds
    ELSE SubtreeSet(ns, non_joints, i + 1,
             IF /\ ns[non_joints[i]].parent >= 0
                /\ Find(non_joints, ns[non_joints[i]].parent) >= 0
                /\ ~ns[ns[non_joints[i]].parent].joint
             THEN DSUnion(DSInsert(ds, non_joints[i]), ns[non_joints[i]].parent, non_joints[i])
             ELSE DSInsert(ds, non_joints[i]))

RECURSIVE ConcatMembers(_, _, _)
ConcatMembers(ds, reps, i) ==
    IF i > Len(reps) THEN <<>>
    ELSE DSMembers(ds, reps[i]) \o ConcatMembers(ds, reps, i + 1)

\* Variant that flags the non-joints as joints and leaves them out of the
\* skeleton's joints.
ReparentFlagsOnly(ns, skel, non_joints) ==
    [nodes |-> [n \in Nodes |-> IF Find(non_joints, n) >= 0
                                THEN [ns[n] EXCEPT !.joint = TRUE] ELSE ns[n]],
     skeleton |-> skel]

\* Every non-joint of the skeleton becomes a joint of it.  The joint flag
\* is tested while the set is being built, before any flag is changed.
_reparent_non_joint_skeleton_subtrees(ns, skel, non_joints) ==
    With(SubtreeSet(ns, non_joints, 1, DSEmpty), LAMBDA ds :
        With(ConcatMembers(ds, DSRepresentatives(ds), 1), LAMBDA added :
            [nodes |-> [n \in Nodes |-> IF Find(added, n) >= 0
                                        THEN [ns[n] EXCEPT !.joint = TRUE] ELSE ns[n]],
             skeleton |-> [skel EXCEPT !.joints = @ \o added]]))

RECURSIVE BuildSkeletons(_, _, _, _, _, _)
\* the loop over skeleton_owners: map the skins, split the members.
BuildSkeletons(ns, sks, skels, ds, owners, k) ==
    IF k > Len(owners) THEN [nodes |-> ns, skins |-> sks, skeletons |-> skels]
    ELSE With(DSMembers(ds, owners[k]), LAMBDA members :
         With(_reparent_non_joint_skeleton_subtrees(
                  ns, [joints |-> SelectSeq(members, LAMBDA m : ns[m].joint), roots |-> <<>>,
                       bones |-> <<>>, bone_parent |-> <<>>, unique_names |-> {}],
                  SelectSeq(members, LAMBDA m : ~ns[m].joint)), LAMBDA r :
             BuildSkeletons(r.nodes,
                 [i \in 1..Len(sks) |->
                     IF \E m \in Range(members) :
                           Find(sks[i].joints, m) >= 0 \/ Find(sks[i].non_joints, m) >= 0
                     THEN [sks[i] EXCEPT !.skeleton = k - 1] ELSE sks[i]],
                 Append(skels, r.skeleton), ds, owners, k + 1)))

RECURSIVE SkeletonSet(_, _, _, _, _)
\* the disjoint set over the nodes of skeleton skel_i, each united with its
\* parent when the parent is in the skeleton too
SkeletonSet(ns, skel_i, mine, i, ds) ==
    IF i > Len(mine) THEN ds
    ELSE SkeletonSet(ns, skel_i, mine, i + 1,
             IF ns[mine[i]].parent >= 0 /\ ns[ns[mine[i]].parent].skeleton = skel_i
             THEN DSUnion(DSInsert(ds, mine[i]), ns[mine[i]].parent, mine[i])
             ELSE DSInsert(ds, mine[i]))

_determine_skeleton_roots(ns, skel_i) ==
    With(SkeletonSet(ns, skel_i, SelectSeq(SortedSeqOf(Nodes), LAMBDA n : ns[n].skeleton = skel_i),
                     1, DSEmpty), LAMBDA ds :
    With(SortAsc(HighestOfSets(ns, ds, DSRepresentatives(ds), 1)), LAMBDA roots :
        [roots  |-> roots,
         result |-> IF Len(roots) = 0 THEN "FAILED"
                    ELSE IF Len(roots) = 1 THEN "OK"
                    ELSE IF \E i \in 2..Len(roots) :
                               ns[roots[i]].parent # ns[roots[1]].parent THEN "FAILED"
                    ELSE "OK"]))

RECURSIVE ClaimJoints(_, _, _, _)
\* node->skeleton = skel_i for every joint of the skeleton; a node that is
\* no joint, or that already has a skeleton, is a parse error.
ClaimJoints(ns, joints, skel_i, i) ==
    IF i > Len(joints) THEN [nodes |-> ns, result |-> "OK"]
    ELSE IF ~ns[joints[i]].joint \/ ns[joints[i]].skeleton >= 0
         THEN [nodes |-> ns, result |-> "ERR_PARSE_ERROR"]
         ELSE ClaimJoints([ns EXCEPT ![joints[i]].skeleton = skel_i], joints, skel_i, i + 1)

RECURSIVE AssignSkeletons(_, _, _)
\* the last loop of _determine_skeletons.
AssignSkeletons(ns, skels, k) ==
    IF k > Len(skels) THEN [nodes |-> ns, skeletons |-> skels, result |-> "OK"]
    ELSE With(ClaimJoints(ns, skels[k].joints, k - 1, 1), LAMBDA c :
             IF c.result # "OK" THEN [nodes |-> c.nodes, skeletons |-> skels, result |-> c.result]
             ELSE With(_determine_skeleton_roots(c.nodes, k - 1), LAMBDA r :
                  With([skels EXCEPT ![k].roots = r.roots], LAMBDA s2 :
                      IF r.result # "OK"
                      THEN [nodes |-> c.nodes, skeletons |-> s2, result |-> "ERR_PARSE_ERROR"]
                      ELSE AssignSkeletons(c.nodes, s2, k + 1))))

_determine_skeletons(ns, sks) ==
    With(JoinTouchingSubsets(ns, SkeletonSetsOfSkins(ns, sks, 1, DSEmpty)), LAMBDA sets :
    With(BuildSkeletons(ns, sks, <<>>, sets, DSRepresentatives(sets), 1), LAMBDA built :
    With(AssignSkeletons(built.nodes, built.skeletons, 1), LAMBDA claimed :
        [nodes |-> claimed.nodes, skins |-> built.skins,
         skeletons |-> claimed.skeletons, result |-> claimed.result])))

\* ------------------------------------------------------ _create_skeletons
\* A name is a sequence of one-character tokens ("bone" counts as one).
Digit(k) == CASE k = 2 -> "2" [] k = 3 -> "3" [] k = 4 -> "4" [] k = 5 -> "5"
              [] k = 6 -> "6" [] k = 7 -> "7" [] k = 8 -> "8" [] OTHER -> "9"

_sanitize_bone_name(name) ==
    [i \in 1..Len(name) |-> IF name[i] \in {":", "/"} THEN "_" ELSE name[i]]

RECURSIVE UniqueNameFrom(_, _, _)
UniqueNameFrom(unique_names, s_name, index) ==
    LET u_name == IF index > 1 THEN s_name \o <<"_", Digit(index)>> ELSE s_name
    IN IF u_name \notin unique_names THEN u_name
       ELSE UniqueNameFrom(unique_names, s_name, index + 1)

\* Variant that takes the sanitized name as it is.
SanitizedNameOnly(unique_names, name) ==
    LET s == _sanitize_bone_name(name)
    IN IF s = <<>> THEN <<"bone">> ELSE s

_gen_unique_bone_name(unique_names, name) ==
    LET s == _sanitize_bone_name(name)
    IN UniqueNameFrom(unique_names, IF s = <<>> THEN <<"bone">> ELSE s, 1)

\* Skeleton3D::find_bone: the index of the first bone with the name, or -1.
find_bone(bones, name) ==
    IF \E i \in 1..Len(bones) : bones[i].name = name
    THEN (CHOOSE i \in 1..Len(bones) :
              bones[i].name = name /\ \A j \in 1..(i - 1) : bones[j].name # name) - 1
    ELSE -1

\* Variant that takes the in-skeleton children in the order they are listed.
SkeletonChildrenAsListed(ns, n, skel_i) ==
    SelectSeq(ns[n].children, LAMBDA c : ns[c].skeleton = skel_i)

\* "Add all child nodes to the stack (deterministically)": the children in
\* the skeleton, sorted ascending.
SkeletonChildren(ns, n, skel_i) ==
    SortAsc(SelectSeq(ns[n].children, LAMBDA c : ns[c].skeleton = skel_i))

RECURSIVE AddBones(_, _, _, _)
\* while (!bones.is_empty()): pop the front, push its sorted children to
\* the front, add the bone.
AddBones(ns, skel, skel_i, work) ==
    IF work = <<>> THEN [nodes |-> ns, skeleton |-> skel, result |-> "OK"]
    ELSE IF ns[Head(work)].skeleton # skel_i
    THEN [nodes |-> ns, skeleton |-> skel, result |-> "FAILED"]
    ELSE With(Head(work), LAMBDA node_i :
         With(_gen_unique_bone_name(skel.unique_names,
                  IF ns[node_i].name = <<>> THEN <<"bone">> ELSE ns[node_i].name), LAMBDA uname :
         With([ns EXCEPT ![node_i].name = uname], LAMBDA ns2 :
         With(Append(skel.bones, [node |-> node_i, name |-> uname, parent |-> -1]), LAMBDA bones2 :
         With(ns[node_i].parent >= 0 /\ ns2[ns[node_i].parent].skeleton = skel_i, LAMBDA hasP :
         With(IF hasP THEN find_bone(bones2, ns2[ns[node_i].parent].name) ELSE -1, LAMBDA bp :
             IF hasP /\ bp < 0
             THEN [nodes |-> ns2,
                   skeleton |-> [skel EXCEPT !.unique_names = @ \cup {uname}, !.bones = bones2],
                   result |-> "FAILED"]
             ELSE AddBones(ns2,
                      [skel EXCEPT !.unique_names = @ \cup {uname},
                                   !.bones = [bones2 EXCEPT ![Len(bones2)].parent = bp]],
                      skel_i, SkeletonChildren(ns, node_i, skel_i) \o Tail(work))))))))

RECURSIVE CreateSkeletonsFrom(_, _, _)
CreateSkeletonsFrom(ns, skels, k) ==
    IF k > Len(skels) THEN [nodes |-> ns, skeletons |-> skels, result |-> "OK"]
    ELSE With(AddBones(ns, skels[k], k - 1, SortAsc(skels[k].roots)), LAMBDA r :
         With([skels EXCEPT ![k] = r.skeleton], LAMBDA s2 :
             IF r.result # "OK" THEN [nodes |-> r.nodes, skeletons |-> s2, result |-> "FAILED"]
             ELSE CreateSkeletonsFrom(r.nodes, s2, k + 1)))

RECURSIVE MapSkinJoints(_, _, _, _)
\* _map_skin_joints_indices_to_skeleton_bone_indices
MapSkinJoints(ns, sks, skels, i) ==
    IF i > Len(sks) THEN [skins |-> sks, result |-> "OK"]
    ELSE IF sks[i].skeleton < 0 THEN [skins |-> sks, result |-> "CRASH"]
    ELSE With([j \in 1..Len(sks[i].joints_original) |->
                  find_bone(skels[sks[i].skeleton + 1].bones,
                            ns[sks[i].joints_original[j]].name)], LAMBDA idx :
             IF \E j \in 1..Len(idx) : idx[j] < 0
             THEN [skins |-> sks, result |-> "ERR_PARSE_ERROR"]
             ELSE MapSkinJoints(ns, [sks EXCEPT ![i].joint_i_to_bone_i = idx], skels, i + 1))

_create_skeletons(ns, sks, skels) ==
    With(CreateSkeletonsFrom(ns, skels, 1), LAMBDA c :
        IF c.result # "OK"
        THEN [nodes |-> c.nodes, skins |-> sks, skeletons |-> c.skeletons, result |-> c.result]
        ELSE With(MapSkinJoints(c.nodes, sks, c.skeletons, 1), LAMBDA m :
                 [nodes |-> c.nodes, skins |-> m.skins, skeletons |-> c.skeletons,
                  result |-> m.result]))

\* --------------------------------------------------------- _create_skins
\* FBXState::use_named_skin_binds as the state is constructed.
UseNamedSkinBinds == FALSE

\* Skin::add_bind / Skin::add_named_bind for every original joint.
SkinBinds(ns, sk) ==
    [j \in 1..Len(sk.joints_original) |->
        IF UseNamedSkinBinds
        THEN [bone |-> -1, name |-> ns[sk.joints_original[j]].name]
        ELSE [bone |-> sk.joint_i_to_bone_i[j], name |-> <<>>]]

\* Variant that compares the bind counts alone.
SameBindCount(a, b) == Len(a.binds) = Len(b.binds)

_skins_are_same(a, b) == a.binds = b.binds

RECURSIVE _remove_duplicate_skins(_, _, _)
\* for i, for j > i: a skin equal to skin i shares skin i's Skin object.
_remove_duplicate_skins(sks, i, j) ==
    IF i > Len(sks) THEN sks
    ELSE IF j > Len(sks) THEN _remove_duplicate_skins(sks, i + 1, i + 2)
    ELSE _remove_duplicate_skins(
             IF _skins_are_same(sks[i].godot_skin, sks[j].godot_skin)
             THEN [sks EXCEPT ![j].godot_skin = sks[i].godot_skin] ELSE sks,
             i, j + 1)

_create_skins(ns, sks) ==
    _remove_duplicate_skins(
        [i \in 1..Len(sks) |->
            [sks[i] EXCEPT !.godot_skin = [id |-> i - 1, binds |-> SkinBinds(ns, sks[i])]]],
        1, 2)

\* ------------------------------------------------- the import pipeline
\* Tree-shaped documents: the children arrays list every node at most once
\* and contain no cycle.
ParentMaps ==
    {par \in [Nodes -> Nodes \cup {NoNode}] :
        \A n \in Nodes : \E h \in 0..NumNodes :
            LET RECURSIVE Up(_, _)
                Up(m, k) == IF k = 0 \/ m = NoNode THEN m ELSE Up(par[m], k - 1)
            IN Up(n, h) = NoNode}

\* every order of a finite set, as sequences
RECURSIVE Orderings(_)
Orderings(S) ==
    IF S = {} THEN {<<>>}
    ELSE UNION {{<<x>> \o o : o \in Orderings(S \ {x})} : x \in S}

Kids(par, p) == {c \in Nodes : par[c] = p}

RECURSIVE ChildArraysUpTo(_, _)
\* the children arrays of nodes 0..k: every order of each node's children
ChildArraysUpTo(par, k) ==
    IF k < 0 THEN {[x \in {} |-> <<>>]}
    ELSE {f @@ (k :> o) : f \in ChildArraysUpTo(par, k - 1), o \in Orderings(Kids(par, k))}

ChildArrays(par) == ChildArraysUpTo(par, NumNodes - 1)

JointLists == UNION {Orderings(T) : T \in {U \in SUBSET Nodes : Cardinality(U) <= MaxJoints}}

RECURSIVE TotalJoints(_)
TotalJoints(sl) == IF sl = <<>> THEN 0 ELSE Len(Head(sl)) + TotalJoints(Tail(sl))

SkinLists ==
    {sl \in UNION {[1..k -> JointLists] : k \in 0..MaxSkins} :
        Len(sl) >= 2 => TotalJoints(sl) <= MaxSharedJoints}

\* no node, or the last node, is a skinned mesh instance
SkinnedMaps == {[n \in Nodes |-> n = m] : m \in {NoNode, NumNodes - 1}}

\* node names: two nodes share a name, one is unnamed, one has a name that
\* collides with a generated suffix and holds a character to sanitize
NameMaps ==
    {[n \in Nodes |-> CASE n = 0 -> <<"a">>
                        [] n = 1 -> <<"a">>
                        [] n = 2 -> <<>>
                        [] OTHER -> <<"a", ":", "2">>]}

SkinInit ==
    /\ \E par \in ParentMaps : \E ch \in ChildArrays(par) :
       \E sm \in SkinnedMaps : \E nm \in NameMaps : \E sl \in SkinLists :
          doc = [children |-> ch, skinned |-> sm, names |-> nm, skins |-> sl]
    /\ nodes = <<>>
    /\ skins = <<>>
    /\ skeletons = <<>>
    /\ pc = "parse_nodes"
    /\ err = "OK"
    /\ ran = <<>>
    /\ BufIdle /\ AnimIdle /\ ExtIdle /\ MeshIdle /\ WalkIdle

\* _parse_fbx_state, PARSE NODES
ParseNodes ==
    /\ pc = "parse_nodes"
    /\ nodes' = _parse_nodes(doc)
    /\ pc' = "parse_skins"
    /\ ran' = Append(ran, "_parse_nodes")
    /\ UNCHANGED <<doc, skins, skeletons, err, bufVars, animVars, extVars, meshVars, walkVars>>

Outcome(result, next) ==
    /\ pc' = IF result = "OK" THEN next ELSE IF result = "CRASH" THEN "crashed" ELSE "failed"
    /\ err' = IF result = "OK" THEN "OK" ELSE IF result = "CRASH" THEN "CRASH" ELSE "ERR_PARSE_ERROR"

\* the state a stage leaves: what it returned in r, and the stage's result
StageDone(r, stage, next) ==
    /\ nodes' = r.nodes
    /\ skins' = r.skins
    /\ skeletons' = IF "skeletons" \in DOMAIN r THEN r.skeletons ELSE skeletons
    /\ Outcome(r.result, next)
    /\ ran' = Append(ran, stage)
    /\ UNCHANGED <<doc, bufVars, animVars, extVars, meshVars, walkVars>>

\* _parse_fbx_state, PARSE SKINS
ParseSkins ==
    /\ pc = "parse_skins"
    /\ StageDone(_parse_skins(nodes, doc.skins), "_parse_skins", "determine_skeletons")

\* _parse_fbx_state, DETERMINE SKELETONS
DetermineSkeletons ==
    /\ pc = "determine_skeletons"
    /\ StageDone(_determine_skeletons(nodes, skins), "_determine_skeletons", "create_skeletons")

\* _parse_fbx_state, CREATE SKELETONS
CreateSkeletons ==
    /\ pc = "create_skeletons"
    /\ StageDone(_create_skeletons(nodes, skins, skeletons), "_create_skeletons", "create_skins")

\* _parse_fbx_state, CREATE SKINS
CreateSkins ==
    /\ pc = "create_skins"
    /\ skins' = _create_skins(nodes, skins)
    /\ pc' = "done"
    /\ ran' = Append(ran, "_create_skins")
    /\ UNCHANGED <<doc, nodes, skeletons, err, bufVars, animVars, extVars, meshVars, walkVars>>

SkinNext ==
    ParseNodes \/ ParseSkins \/ DetermineSkeletons \/ CreateSkeletons \/ CreateSkins

SkinSpec == SkinInit /\ [][SkinNext]_vars

\* ============================================================ buffer codec
\* ------------------------------------------------------------- numbers
\* A double is held as a rational in lowest terms, [num, den] with den > 0.
Abs(x) == IF x < 0 THEN -x ELSE x

RECURSIVE GCD(_, _)
GCD(a, b) == IF b = 0 THEN a ELSE GCD(b, a % b)

Rat(n, d) == LET g == GCD(Abs(n), d) IN [num |-> n \div g, den |-> d \div g]

RECURSIVE Pow2(_)
Pow2(k) == IF k = 0 THEN 1 ELSE 2 * Pow2(k - 1)

RECURSIVE BitLength(_)
\* the number of binary digits of a >= 0
BitLength(a) == IF a = 0 THEN 0 ELSE 1 + BitLength(a \div 2)

RECURSIVE TrailingZeros(_)
\* the number of trailing zero bits of a > 0
TrailingZeros(a) == IF a % 2 = 1 THEN 0 ELSE 1 + TrailingZeros(a \div 2)

IsPow2(d) == d > 0 /\ d = Pow2(BitLength(d) - 1)

\* Math::snapped(x, step) with step = 1 / q: floor(x / step + 0.5) * step
snapped(x, q) == Rat((2 * x.num * q + x.den) \div (2 * x.den), q)

\* CMP_NORMALIZE_TOLERANCE is 0.000001 = 1 / CmpNormalizeToleranceInverse
CmpNormalizeToleranceInverse == 1000000

\* ------------------------------------------------- component encodings
\* memcpy of an int32_t, little-endian two's complement
Int32Bytes(v) ==
    LET u == IF v < 0 THEN (v + 1) + 2147483647 ELSE v
    IN <<u % 256, (u \div 256) % 256, (u \div 65536) % 256,
         (u \div 16777216) + (IF v < 0 THEN 128 ELSE 0)>>

\* *(int *)src
Int32Of(b) ==
    IF b[4] >= 128
    THEN (((b[4] - 128) * 16777216 + b[3] * 65536 + b[2] * 256 + b[1]) - 2147483647) - 1
    ELSE b[4] * 16777216 + b[3] * 65536 + b[2] * 256 + b[1]

\* int8_t(*src)
Int8Of(b) == IF b[1] >= 128 THEN b[1] - 256 ELSE b[1]

\* *(uint16_t *)src
UInt16Of(b) == b[1] + 256 * b[2]

\* *(int16_t *)src
Int16Of(b) == IF UInt16Of(b) >= 32768 THEN UInt16Of(b) - 65536 ELSE UInt16Of(b)

\* (float)d stored as IEEE 754 binary32, little-endian.  The cast is exact
\* for a double that is a binary32 value: a dyadic rational with at most 24
\* significant bits and a normal exponent; no other double is encoded here
\* (the product of snapped is taken exactly; for the values encoded here
\* its double is within an ulp of a binary32 value, to which the cast rounds).
FloatBytes(r) ==
    IF r.num = 0 THEN <<0, 0, 0, 0>>
    ELSE LET a      == Abs(r.num)
             L      == BitLength(a)
             k      == BitLength(r.den) - 1
             biased == (L - 1 - k) + 127
             frac   == a * Pow2(24 - L) - 8388608
             sign   == IF r.num < 0 THEN 1 ELSE 0
         IN CASE IsPow2(r.den) /\ L <= 24 /\ biased \in 1..254 ->
                 <<frac % 256, (frac \div 256) % 256,
                   (frac \div 65536) + 128 * (biased % 2),
                   sign * 128 + biased \div 2>>

\* *(float *)src widened to double.  A value whose rational does not fit
\* the integers of the model (an infinity, a NaN, a denormal, a very large
\* or very small exponent) is kept as its four bytes.
Float32Of(b) ==
    LET sign   == b[4] \div 128
        biased == (b[4] % 128) * 2 + b[3] \div 128
        frac   == (b[3] % 128) * 65536 + b[2] * 256 + b[1]
        m24    == 8388608 + frac
        t      == TrailingZeros(m24)
        odd    == m24 \div Pow2(t)
        s      == t + biased - 150
        sg     == IF sign = 1 THEN -1 ELSE 1
    IN IF biased = 0 /\ frac = 0 THEN Rat(0, 1)
       ELSE IF biased \in 1..254 /\ s >= 0 /\ BitLength(odd) + s <= 30
            THEN Rat(sg * odd * Pow2(s), 1)
       ELSE IF biased \in 1..254 /\ s < 0 /\ -s <= 30
            THEN [num |-> sg * odd, den |-> Pow2(-s)]
       ELSE [f32 |-> b]

ComponentTypes == {"BYTE", "UNSIGNED_BYTE", "SHORT", "UNSIGNED_SHORT", "INT", "FLOAT"}

_get_component_type_size(ct) ==
    CASE ct \in {"BYTE", "UNSIGNED_BYTE"} -> 1
      [] ct \in {"SHORT", "UNSIGNED_SHORT"} -> 2
      [] ct \in {"INT", "FLOAT"} -> 4
      [] OTHER -> 0

component_count_for_type(t) ==
    CASE t = "SCALAR" -> 1 [] t = "VEC2" -> 2 [] t = "VEC3" -> 3 [] t = "VEC4" -> 4
      [] t = "MAT2" -> 4 [] t = "MAT3" -> 9 [] t = "MAT4" -> 16

\* the switch of _decode_buffer_view: one component read from its bytes
DecodeComponent(ct, normalized, b) ==
    CASE ct = "BYTE" -> Rat(Int8Of(b), IF normalized THEN 128 ELSE 1)
      [] ct = "UNSIGNED_BYTE" -> Rat(b[1], IF normalized THEN 255 ELSE 1)
      [] ct = "SHORT" -> Rat(Int16Of(b), IF normalized THEN 32768 ELSE 1)
      [] ct = "UNSIGNED_SHORT" -> Rat(UInt16Of(b), IF normalized THEN 65535 ELSE 1)
      [] ct = "INT" -> Rat(Int32Of(b), 1)
      [] ct = "FLOAT" -> Float32Of(b)

\* the INT and FLOAT branches of _encode_buffer_view: buffer.write[dst_i] = d
EncodeComponent(ct, d) ==
    CASE ct = "INT" -> Int32Bytes(IF d.num < 0 THEN -((-d.num) \div d.den) ELSE d.num \div d.den)
      [] ct = "FLOAT" -> FloatBytes(d)

\* Variant without the matrix alignment rules.
NoSkipRule(ct, t) ==
    [skip_every |-> 0, skip_bytes |-> 0,
     element_size |-> component_count_for_type(t) * _get_component_type_size(ct)]

\* "special case of alignments, as described in spec" of _decode_accessor
SkipRule(ct, t) ==
    CASE ct \in {"BYTE", "UNSIGNED_BYTE"} /\ t = "MAT2" ->
             [skip_every |-> 2, skip_bytes |-> 2, element_size |-> 8]
      [] ct \in {"BYTE", "UNSIGNED_BYTE"} /\ t = "MAT3" ->
             [skip_every |-> 3, skip_bytes |-> 1, element_size |-> 12]
      [] ct \in {"SHORT", "UNSIGNED_SHORT"} /\ t = "MAT3" ->
             [skip_every |-> 6, skip_bytes |-> 4, element_size |-> 16]
      [] OTHER ->
             [skip_every |-> 0, skip_bytes |-> 0,
              element_size |-> component_count_for_type(t) * _get_component_type_size(ct)]

RECURSIVE Flatten(_)
Flatten(ss) == IF ss = <<>> THEN <<>> ELSE Head(ss) \o Flatten(Tail(ss))

\* ---------------------------------------------------- _encode_buffer_view
\* The layout written for the component types without alignment skips.
\* Line 1076 stores the index of the new buffer view in bv->buffer.
_encode_buffer_view(bufs, views, src, count, type, ct, byte_offset, for_vertex) ==
    LET component_count == component_count_for_type(type)
        component_size  == _get_component_type_size(ct)
        stride     == IF for_vertex /\ component_size % 4 # 0
                      THEN component_size + (4 - (component_size % 4)) ELSE component_size
        buffer_end == stride * (count - 1) + component_size
        bytes      == Flatten([i \in 1..(count * component_count) |-> EncodeComponent(ct, src[i])])
        grown      == [bufs EXCEPT ![1] = @ \o bytes]
        bv         == [buffer |-> Len(views), byte_offset |-> byte_offset,
                       byte_length |-> Len(bytes), byte_stride |-> -1]
    IN IF component_size = 0
       THEN [buffers |-> bufs, buffer_views |-> views, err |-> "FAILED", view |-> -1]
       ELSE IF buffer_end > bv.byte_length \/ byte_offset + buffer_end > Len(grown[1])
       THEN [buffers |-> grown, buffer_views |-> views, err |-> "ERR_INVALID_DATA", view |-> -1]
       ELSE [buffers |-> grown, buffer_views |-> Append(views, bv), err |-> "OK",
             view |-> Len(views)]

\* the common tail of _encode_accessor_as_ints and _encode_accessor_as_floats
EncodeScalars(bufs, views, accs, attribs, ct, for_vertex) ==
    LET e == _encode_buffer_view(bufs, views, attribs, Len(attribs), "SCALAR", ct,
                                 Len(bufs[1]), for_vertex)
        accessor == [buffer_view |-> e.view, byte_offset |-> 0, component_type |-> ct,
                     normalized |-> FALSE, count |-> Len(attribs), type |-> "SCALAR"]
    IN IF e.err # "OK"
       THEN [buffers |-> e.buffers, buffer_views |-> e.buffer_views, accessors |-> accs,
             result |-> -1]
       ELSE [buffers |-> e.buffers, buffer_views |-> e.buffer_views,
             accessors |-> Append(accs, accessor), result |-> Len(accs)]

_encode_accessor_as_ints(bufs, views, accs, p_attribs, for_vertex) ==
    IF Len(p_attribs) = 0
    THEN [buffers |-> bufs, buffer_views |-> views, accessors |-> accs, result |-> -1]
    ELSE EncodeScalars(bufs, views, accs,
             [i \in 1..Len(p_attribs) |-> snapped(Rat(p_attribs[i], 1), 1)], "INT", for_vertex)

_encode_accessor_as_floats(bufs, views, accs, p_attribs, for_vertex) ==
    IF Len(p_attribs) = 0
    THEN [buffers |-> bufs, buffer_views |-> views, accessors |-> accs, result |-> -1]
    ELSE EncodeScalars(bufs, views, accs,
             [i \in 1..Len(p_attribs) |-> snapped(p_attribs[i], CmpNormalizeToleranceInverse)],
             "FLOAT", for_vertex)

\* ---------------------------------------------------- _decode_buffer_view
DecodeStride(bv, element_size, for_vertex) ==
    LET s == IF bv.byte_stride # -1 THEN bv.byte_stride ELSE element_size
    IN IF for_vertex /\ s % 4 # 0 THEN s + (4 - (s % 4)) ELSE s

\* the bytes src has skipped before component j of an element
SkippedBytes(j, rule) ==
    IF rule.skip_every # 0 THEN rule.skip_bytes * (j \div rule.skip_every) ELSE 0

\* bufptr[pos]: a read past the end of the buffer yields the byte junk
ByteAt(buffer, pos, junk) == IF pos < Len(buffer) THEN buffer[pos + 1] ELSE junk

DecodeFailed(e) == [err |-> e, values |-> <<>>, reads |-> <<>>, oob |-> FALSE]

\* reads lists the buffer position of every component read; junk = -1
\* stands for the run in which a read past the end of the buffer faults.
_decode_buffer_view(bufs, views, p_buffer_view, rule, count, component_count, ct, component_size, normalized, p_byte_offset, for_vertex, junk) ==
    LET bv         == views[p_buffer_view + 1]
        stride     == DecodeStride(bv, rule.element_size, for_vertex)
        offset     == bv.byte_offset + p_byte_offset
        buffer_end == stride * (count - 1) + rule.element_size
    IN IF bv.buffer < 0 \/ bv.buffer >= Len(bufs) THEN DecodeFailed("ERR_PARSE_ERROR")
       ELSE LET buffer == bufs[bv.buffer + 1]
                reads  == [idx \in 1..(count * component_count) |->
                              LET i == (idx - 1) \div component_count
                                  j == (idx - 1) % component_count
                              IN offset + i * stride + j * component_size
                                 + SkippedBytes(j, rule)]
                oob    == \E idx \in 1..Len(reads) : reads[idx] + component_size > Len(buffer)
            IN IF buffer_end > bv.byte_length THEN DecodeFailed("ERR_PARSE_ERROR")
               ELSE IF offset + buffer_end > Len(buffer) THEN DecodeFailed("ERR_PARSE_ERROR")
               ELSE IF oob /\ junk = -1
               THEN [err |-> "CRASH", values |-> <<>>, reads |-> reads, oob |-> TRUE]
               ELSE [err |-> "OK",
                     values |-> [idx \in 1..Len(reads) |->
                                   DecodeComponent(ct, normalized,
                                       [k \in 1..component_size |->
                                           ByteAt(buffer, reads[idx] + k - 1, junk)])],
                     reads |-> reads, oob |-> oob]

\* _decode_accessor for an accessor without sparse storage; the Vector it
\* returns is the field values
_decode_accessor(bufs, views, accs, p_accessor, for_vertex, junk) ==
    IF p_accessor < 0 \/ p_accessor >= Len(accs) THEN DecodeFailed("ERR_INVALID_INDEX")
    ELSE LET a == accs[p_accessor + 1]
             component_count == component_count_for_type(a.type)
             component_size  == _get_component_type_size(a.component_type)
         IN IF component_size = 0 THEN DecodeFailed("FAILED")
            ELSE IF a.buffer_view >= 0
            THEN IF a.buffer_view >= Len(views) THEN DecodeFailed("ERR_INVALID_INDEX")
                 ELSE _decode_buffer_view(bufs, views, a.buffer_view,
                          SkipRule(a.component_type, a.type), a.count, component_count,
                          a.component_type, component_size, a.normalized, a.byte_offset,
                          for_vertex, junk)
            ELSE [err |-> "OK",
                  values |-> [i \in 1..(a.count * component_count) |-> Rat(0, 1)],
                  reads |-> <<>>, oob |-> FALSE]

\* ------------------------------------------------------- codec actions
\* arrays handed to the encoders
IntValues == {-2, 300}
FloatValues == {Rat(1, 1), Rat(-5, 2), Rat(1, 16777216)}

ArraysOf(S) == UNION {[1..n -> S] : n \in 1..MaxArrayLen}

\* the byte a read past the end of a buffer may yield, or -1 for a fault
JunkBytes == {0, 255, -1}

CodecInit ==
    /\ buffers = <<<<>>>>
    /\ buffer_views = <<>>
    /\ accessors = <<>>
    /\ encoded = <<>>
    /\ decoded = NoDecode
    /\ SkinIdle /\ AnimIdle /\ ExtIdle /\ MeshIdle /\ WalkIdle

Stored(r, values, for_vertex) ==
    /\ buffers' = r.buffers
    /\ buffer_views' = r.buffer_views
    /\ accessors' = r.accessors
    /\ encoded' = Append(encoded, [accessor |-> r.result, values |-> values,
                                   for_vertex |-> for_vertex])
    /\ UNCHANGED decoded

EncodeInts ==
    /\ Len(accessors) < MaxAccessors
    /\ \E a \in ArraysOf(IntValues), fv \in BOOLEAN :
          Stored(_encode_accessor_as_ints(buffers, buffer_views, accessors, a, fv),
                 [i \in 1..Len(a) |-> Rat(a[i], 1)], fv)
    /\ UNCHANGED <<skinVars, animVars, extVars, meshVars, walkVars>>

EncodeFloats ==
    /\ Len(accessors) < MaxAccessors
    /\ \E a \in ArraysOf(FloatValues), fv \in BOOLEAN :
          Stored(_encode_accessor_as_floats(buffers, buffer_views, accessors, a, fv), a, fv)
    /\ UNCHANGED <<skinVars, animVars, extVars, meshVars, walkVars>>

DecodeAccessor ==
    /\ \E i \in 0..(Len(accessors) - 1), fv \in BOOLEAN, junk \in JunkBytes :
          LET r == _decode_accessor(buffers, buffer_views, accessors, i, fv, junk)
          IN decoded' = [accessor |-> i, for_vertex |-> fv, err |-> r.err,
                         values |-> r.values, reads |-> r.reads, oob |-> r.oob]
    /\ UNCHANGED <<buffers, buffer_views, accessors, encoded, skinVars, animVars, extVars, meshVars, walkVars>>

CodecNext == EncodeInts \/ EncodeFloats \/ DecodeAccessor

CodecSpec == CodecInit /\ [][CodecNext]_vars

\* ------------------------------------------------ normalized narrow types
\* the integer part of p / q, towards zero
Truncated(p, q) == IF p < 0 THEN -((-p) \div q) ELSE p \div q

\* the integer a double of integer part x becomes in a signed type of the
\* given width.  A value that does not fit is undefined behaviour; conv is
\* what the build makes of it: the value modulo 2^bits ("wrap") or the
\* nearest limit of the type ("saturate").
ConvertedToSigned(x, bits, conv) ==
    IF -Pow2(bits - 1) <= x /\ x < Pow2(bits - 1) THEN x
    ELSE IF conv = "wrap" THEN ((x + Pow2(bits - 1)) % Pow2(bits)) - Pow2(bits - 1)
    ELSE IF x < 0 THEN -Pow2(bits - 1) ELSE Pow2(bits - 1) - 1

\* memcpy of an int8_t or an int16_t, little-endian two's complement
SignedBytes(x, bits) ==
    IF bits = 8 THEN <<x % 256>> ELSE <<(x % 65536) % 256, (x % 65536) \div 256>>

\* the BYTE and SHORT branches of _encode_buffer_view:
\* buffer.write[dst_i] = d * 128.0 (d * 32768.0), or d when not normalized
EncodeNarrow(ct, normalized, d, conv) ==
    IF ct = "BYTE"
    THEN SignedBytes(ConvertedToSigned(
             Truncated(d.num * (IF normalized THEN 128 ELSE 1), d.den), 8, conv), 8)
    ELSE SignedBytes(ConvertedToSigned(
             Truncated(d.num * (IF normalized THEN 32768 ELSE 1), d.den), 16, conv), 16)

\* _encode_buffer_view for scalars of a narrow signed type, called as the
\* encoders of accessors call it (p_byte_offset the size of buffer 0), and
\* the accessor made for the new view
EncodeNarrowScalars(bufs, views, accs, src, ct, normalized, for_vertex, conv) ==
    LET component_size == _get_component_type_size(ct)
        stride     == IF for_vertex /\ component_size % 4 # 0
                      THEN component_size + (4 - (component_size % 4)) ELSE component_size
        buffer_end == stride * (Len(src) - 1) + component_size
        bytes      == Flatten([i \in 1..Len(src) |-> EncodeNarrow(ct, normalized, src[i], conv)])
        grown      == [bufs EXCEPT ![1] = @ \o bytes]
        bv         == [buffer |-> Len(views), byte_offset |-> Len(bufs[1]),
                       byte_length |-> Len(bytes), byte_stride |-> -1]
        accessor   == [buffer_view |-> Len(views), byte_offset |-> 0, component_type |-> ct,
                       normalized |-> normalized, count |-> Len(src), type |-> "SCALAR"]
    IN IF buffer_end > bv.byte_length \/ Len(bufs[1]) + buffer_end > Len(grown[1])
       THEN [buffers |-> grown, buffer_views |-> views, accessors |-> accs, result |-> -1]
       ELSE [buffers |-> grown, buffer_views |-> Append(views, bv),
             accessors |-> Append(accs, accessor), result |-> Len(accs)]

\* the number of steps from 0 to 1 of the values encoded
UnitSteps == 4

\* values of [-1, 1], both ends included
UnitValues == {Rat(k, UnitSteps) : k \in (-UnitSteps)..UnitSteps}

EncodeNormalized ==
    /\ Len(accessors) < MaxAccessors
    /\ \E ct \in {"BYTE", "SHORT"}, v \in UnitValues, fv \in BOOLEAN,
          conv \in {"wrap", "saturate"} :
          Stored(EncodeNarrowScalars(buffers, buffer_views, accessors, <<v>>, ct, TRUE, fv, conv),
                 <<v>>, fv)
    /\ UNCHANGED <<skinVars, animVars, extVars, meshVars, walkVars>>

NarrowNext == EncodeNormalized \/ DecodeAccessor

NarrowSpec == CodecInit /\ [][NarrowNext]_vars

\* ------------------------------------------------------ parsed accessors
\* the bytes of a loaded buffer
Pattern(len) == [i \in 1..len |-> (37 * (i - 1) + 11) % 256]

BufferLengths == {16, 24, 32}

ParsedViews ==
    [buffer : {0, 1}, byte_offset : {0, 4}, byte_length : {8, 16, 24},
     byte_stride : {-1, 4, 16}]

ParsedAccessors ==
    [buffer_view : {0}, byte_offset : {0, 4}, component_type : ComponentTypes,
     normalized : BOOLEAN, count : 1..MaxCount, type : {"SCALAR", "MAT2", "MAT3"}]

DecodeInit ==
    /\ \E len \in BufferLengths : buffers = <<Pattern(len)>>
    /\ buffer_views = <<>>
    /\ accessors = <<>>
    /\ encoded = <<>>
    /\ decoded = NoDecode
    /\ SkinIdle /\ AnimIdle /\ ExtIdle /\ MeshIdle /\ WalkIdle

\* _parse_buffer_views: the document lists one buffer view
ParseBufferView ==
    /\ buffer_views = <<>>
    /\ \E bv \in ParsedViews : buffer_views' = Append(buffer_views, bv)
    /\ UNCHANGED <<buffers, accessors, encoded, decoded, skinVars, animVars, extVars, meshVars, walkVars>>

\* _parse_accessors: the document lists one accessor
ParseAccessor ==
    /\ buffer_views # <<>>
    /\ accessors = <<>>
    /\ \E a \in ParsedAccessors : accessors' = Append(accessors, a)
    /\ UNCHANGED <<buffers, buffer_views, encoded, decoded, skinVars, animVars, extVars, meshVars, walkVars>>

DecodeNext == ParseBufferView \/ ParseAccessor \/ DecodeAccessor

DecodeSpec == DecodeInit /\ [][DecodeNext]_vars

\* ------------------------------------------------------ sparse accessors
\* the positions of entry i of the sparse storage:
\* write_offset + j for j < component_count
EntryPositions(indices, i, component_count) ==
    {Truncated(indices[i].num, indices[i].den) * component_count + j :
        j \in 0..(component_count - 1)}

RECURSIVE Scattered(_, _, _, _, _)
\* for (int i = 0; i < indices.size(); i++): dst[write_offset + j] =
\* data[i * component_count + j], from entry i on.  overrun holds the
\* positions written that are not positions of dst.
Scattered(dst, indices, data, component_count, i) ==
    IF i > Len(indices) THEN [values |-> dst, overrun |-> {}]
    ELSE LET write_offset == Truncated(indices[i].num, indices[i].den) * component_count
             written == [pos \in 1..Len(dst) |->
                            IF pos - 1 \in EntryPositions(indices, i, component_count)
                            THEN data[(i - 1) * component_count + (pos - 1 - write_offset) + 1]
                            ELSE dst[pos]]
             rest == Scattered(written, indices, data, component_count, i + 1)
         IN [values |-> rest.values,
             overrun |-> rest.overrun \cup
                 (EntryPositions(indices, i, component_count) \ (0..(Len(dst) - 1)))]

\* _decode_accessor for an accessor with sparse_count > 0: the dense
\* values, then the sparse indices and values, then the scatter
DecodeSparse(bufs, views, accs, p_accessor, for_vertex, junk) ==
    LET a == accs[p_accessor + 1]
        component_count == component_count_for_type(a.type)
        component_size  == _get_component_type_size(a.component_type)
        indices_component_size == _get_component_type_size(a.sparse_indices_component_type)
        base == _decode_accessor(bufs, views, accs, p_accessor, for_vertex, junk)
        indices == _decode_buffer_view(bufs, views, a.sparse_indices_buffer_view,
                       [skip_every |-> 0, skip_bytes |-> 0,
                        element_size |-> indices_component_size],
                       a.sparse_count, 1, a.sparse_indices_component_type,
                       indices_component_size, FALSE, a.sparse_indices_byte_offset, FALSE, junk)
        data == _decode_buffer_view(bufs, views, a.sparse_values_buffer_view,
                    SkipRule(a.component_type, a.type), a.sparse_count, component_count,
                    a.component_type, component_size, a.normalized,
                    a.sparse_values_byte_offset, for_vertex, junk)
        none == [err |-> "OK", values |-> <<>>, overrun |-> {}, base |-> base.values,
                 indices |-> indices.values, data |-> data.values]
    IN IF base.err # "OK" THEN [none EXCEPT !.err = base.err]
       ELSE IF indices.err # "OK" THEN [none EXCEPT !.err = indices.err]
       ELSE IF data.err # "OK" THEN [none EXCEPT !.err = data.err]
       ELSE LET r == Scattered(base.values, indices.values, data.values, component_count, 1)
            IN [none EXCEPT !.values = r.values, !.overrun = r.overrun]

\* the dense values, the sparse indices and the sparse values of a buffer
DenseBytes == [i \in 1..(2 * MaxCount) |-> 10 + i]
SparseIndexBytes == [1..MaxCount -> 0..MaxCount]
SparseValueBytes == [i \in 1..(2 * MaxCount) |-> 20 + i]

SparseAccessors ==
    [buffer_view : {-1, 0}, byte_offset : {0}, component_type : {"BYTE", "UNSIGNED_BYTE"},
     normalized : BOOLEAN, count : 1..MaxCount, type : {"SCALAR", "VEC2"},
     sparse_count : 1..MaxCount,
     sparse_indices_buffer_view : {1}, sparse_indices_byte_offset : {0},
     sparse_indices_component_type : {"UNSIGNED_BYTE"},
     sparse_values_buffer_view : {2}, sparse_values_byte_offset : {0}]

\* a loaded buffer that holds the three parts, and a view of each
SparseInit ==
    /\ \E ib \in SparseIndexBytes : buffers = <<DenseBytes \o ib \o SparseValueBytes>>
    /\ buffer_views =
          <<[buffer |-> 0, byte_offset |-> 0, byte_length |-> 2 * MaxCount, byte_stride |-> -1],
            [buffer |-> 0, byte_offset |-> 2 * MaxCount, byte_length |-> MaxCount,
             byte_stride |-> -1],
            [buffer |-> 0, byte_offset |-> 3 * MaxCount, byte_length |-> 2 * MaxCount,
             byte_stride |-> -1]>>
    /\ accessors = <<>>
    /\ encoded = <<>>
    /\ decoded = NoDecode
    /\ SkinIdle /\ AnimIdle /\ ExtIdle /\ MeshIdle /\ WalkIdle

\* _parse_accessors: the document lists one accessor, with "sparse"
ParseSparseAccessor ==
    /\ accessors = <<>>
    /\ \E a \in SparseAccessors : accessors' = Append(accessors, a)
    /\ UNCHANGED <<buffers, buffer_views, encoded, decoded, skinVars, animVars, extVars, meshVars, walkVars>>

\* _decode_accessor of the sparse accessor.  A write behind the end of
\* dst is undefined behaviour: the call faults, or it returns and the
\* write has landed outside the array.
DecodeSparseAccessor ==
    /\ accessors # <<>>
    /\ \E fv \in BOOLEAN, junk \in JunkBytes, outcome \in {"returned", "crashed"} :
          LET r == DecodeSparse(buffers, buffer_views, accessors, 0, fv, junk)
          IN /\ outcome = "crashed" => r.overrun # {}
             /\ decoded' = [accessor |-> 0, for_vertex |-> fv,
                            err |-> IF outcome = "crashed" THEN "CRASH" ELSE r.err,
                            values |-> IF outcome = "crashed" THEN <<>> ELSE r.values,
                            reads |-> <<>>, oob |-> r.overrun # {},
                            base |-> r.base, indices |-> r.indices, data |-> r.data]
    /\ UNCHANGED <<buffers, buffer_views, accessors, encoded, skinVars, animVars, extVars, meshVars, walkVars>>

SparseNext == ParseSparseAccessor \/ DecodeSparseAccessor

SparseSpec == SparseInit /\ [][SparseNext]_vars

\* ======================================================== animation baking
\* Key times and bake times are whole ticks of 1 / TicksPerSecond seconds;
\* values of the track type T are integers, samples are rationals.

\* SceneFormatImporterGLTFInterpolate<T>::lerp at c = p / q
lerp(a, b, p, q) == Rat(a * q + (b - a) * p, q)

\* Variant of bezier that weighs the first control point as the start.
BezierFromControl(start, control_1, control_2, end, p, q) ==
    Rat(control_1 * (q - p) * (q - p) * (q - p) + 3 * start * (q - p) * (q - p) * p
        + 3 * control_2 * (q - p) * p * p + end * p * p * p, q * q * q)

\* SceneFormatImporterGLTFInterpolate<T>::bezier at t = p / q
bezier(start, control_1, control_2, end, p, q) ==
    Rat(start * (q - p) * (q - p) * (q - p) + 3 * control_1 * (q - p) * (q - p) * p
        + 3 * control_2 * (q - p) * p * p + end * p * p * p, q * q * q)

\* SceneFormatImporterGLTFInterpolate<T>::catmull_rom at t = p / q
catmull_rom(p0, p1, p2, p3, p, q) ==
    Rat(2 * p1 * q * q * q + (p2 - p0) * p * q * q
        + (2 * p0 - 5 * p1 + 4 * p2 - p3) * p * p * q
        + (3 * p1 - p0 - 3 * p2 + p3) * p * p * p, 2 * q * q * q)

RECURSIVE KeysNotAfter(_, _, _)
\* the loop "for i: if (p_times[i] > p_time) break; idx++": the length of
\* the longest prefix of p_times whose times are all <= p_time
KeysNotAfter(p_times, p_time, i) ==
    IF i > Len(p_times) \/ p_times[i] > p_time THEN 0
    ELSE 1 + KeysNotAfter(p_times, p_time, i + 1)

\* p_values[i] with the C++ index i; an index outside the vector reads junk
ValueAt(p_values, i, junk) ==
    IF i >= 0 /\ i < Len(p_values) THEN p_values[i + 1] ELSE junk

_interpolate_track(p_times, p_values, p_time, p_interp, junk) ==
    LET idx == KeysNotAfter(p_times, p_time, 1) - 1
        n   == Len(p_times)
        v(i) == ValueAt(p_values, i, junk)
        p   == p_time - p_times[idx + 1]
        q   == p_times[idx + 2] - p_times[idx + 1]
    IN IF Len(p_values) = 0 THEN Rat(0, 1)
       ELSE IF n # Len(p_values) \div (IF p_interp = "CUBIC_SPLINE" THEN 3 ELSE 1)
       THEN Rat(v(0), 1)
       ELSE CASE p_interp = "LINEAR" ->
                   IF idx = -1 THEN Rat(v(0), 1)
                   ELSE IF idx >= n - 1 THEN Rat(v(n - 1), 1)
                   ELSE lerp(v(idx), v(idx + 1), p, q)
              [] p_interp = "STEP" ->
                   IF idx = -1 THEN Rat(v(0), 1)
                   ELSE IF idx >= n - 1 THEN Rat(v(n - 1), 1)
                   ELSE Rat(v(idx), 1)
              [] p_interp = "CATMULLROMSPLINE" ->
                   IF idx = -1 THEN Rat(v(1), 1)
                   ELSE IF idx >= n - 1 THEN Rat(v(1 + n - 1), 1)
                   ELSE catmull_rom(v(idx - 1), v(idx), v(idx + 1), v(idx + 3), p, q)
              [] p_interp = "CUBIC_SPLINE" ->
                   IF idx = -1 THEN Rat(v(1), 1)
                   ELSE IF idx >= n - 1 THEN Rat(v((n - 1) * 3 + 1), 1)
                   ELSE LET from == v(idx * 3 + 1)
                            c1   == from + v(idx * 3 + 2)
                            to   == v(idx * 3 + 4)
                            c2   == to + v(idx * 3 + 3)
                        IN bezier(from, c1, c2, to, p, q)

\* the C++ indices of p_values a call of _interpolate_track reads
ValuesRead(p_times, p_values, p_time, p_interp) ==
    LET idx == KeysNotAfter(p_times, p_time, 1) - 1
        n   == Len(p_times)
    IN IF Len(p_values) = 0 THEN {}
       ELSE IF n # Len(p_values) \div (IF p_interp = "CUBIC_SPLINE" THEN 3 ELSE 1) THEN {0}
       ELSE CASE p_interp \in {"LINEAR", "STEP"} ->
                   IF idx = -1 THEN {0}
                   ELSE IF idx >= n - 1 THEN {n - 1}
                   ELSE IF p_interp = "LINEAR" THEN {idx, idx + 1} ELSE {idx}
              [] p_interp = "CATMULLROMSPLINE" ->
                   IF idx = -1 THEN {1}
                   ELSE IF idx >= n - 1 THEN {1 + n - 1}
                   ELSE {idx - 1, idx, idx + 1, idx + 3}
              [] p_interp = "CUBIC_SPLINE" ->
                   IF idx = -1 THEN {1}
                   ELSE IF idx >= n - 1 THEN {(n - 1) * 3 + 1}
                   ELSE {idx * 3 + 1, idx * 3 + 2, idx * 3 + 4, idx * 3 + 3}

\* INFINITY, in ticks: above every key time
Infinity == 1000000

RECURSIVE MinTime(_, _, _)
\* anim_start = MIN(anim_start, times[i])
MinTime(times, i, m) ==
    IF i > Len(times) THEN m
    ELSE MinTime(times, i + 1, IF times[i] < m THEN times[i] ELSE m)

RECURSIVE MaxTime(_, _, _)
\* anim_end = MAX(anim_end, times[i])
MaxTime(times, i, m) ==
    IF i > Len(times) THEN m
    ELSE MaxTime(times, i + 1, IF times[i] > m THEN times[i] ELSE m)

\* the key times of a channel, in ticks
KeyTimes == {-2, 0, 1, 3, 6}

Interpolations == {"LINEAR", "STEP", "CATMULLROMSPLINE", "CUBIC_SPLINE"}

\* the values a key may hold: the first key, and the later ones
KeyValues(k) == IF k = 1 THEN {0, 20} ELSE {0, 50}

RECURSIVE CubicValuesUpTo(_)
\* cubic-spline channels of k keys: in-tangent, value, out-tangent per key
CubicValuesUpTo(k) ==
    IF k = 0 THEN {<<>>}
    ELSE {s \o <<i, v, o>> : s \in CubicValuesUpTo(k - 1),
                              i \in (IF k = 1 THEN {1} ELSE {0, -3}),
                              v \in KeyValues(k),
                              o \in (IF k = NumKeys THEN {6} ELSE {0, 3})}

CubicValues == CubicValuesUpTo(NumKeys)

RECURSIVE PlainValuesUpTo(_)
\* channels of k keys with one value per key
PlainValuesUpTo(k) ==
    IF k = 0 THEN {<<>>}
    ELSE {Append(s, v) : s \in PlainValuesUpTo(k - 1), v \in KeyValues(k)}

PlainValues == PlainValuesUpTo(NumKeys)

\* the bake rates: frames per second that divide TicksPerSecond
BakeRates == {f \in 1..TicksPerSecond : TicksPerSecond % f = 0}

\* the value an out-of-range p_values index may read
JunkValues == {0, 99}

\* the rotation channel of the same node: none, or keys at these times
RotationTimes == {<<>>, <<-2, 6>>}

\* Animation::position_track_insert_key: the keys of a track are kept in
\* time order and a key at the time of an existing key replaces it
position_track_insert_key(keys, key) ==
    LET before == SelectSeq(keys, LAMBDA k : k.time < key.time)
        after  == SelectSeq(keys, LAMBDA k : k.time > key.time)
    IN before \o <<key>> \o after

\* one animation with one node track that holds one position channel of
\* NumKeys keys
AnimInit ==
    /\ \E i \in Interpolations, t \in [1..NumKeys -> KeyTimes] :
          \E v \in (IF i = "CUBIC_SPLINE" THEN CubicValues ELSE PlainValues) :
          \E rt \in RotationTimes :
             anim = [times |-> t, values |-> v, interpolation |-> i, rotation_times |-> rt]
    /\ \E f \in BakeRates, tr \in BOOLEAN : bake = [NoBake EXCEPT !.fps = f, !.trimming = tr]
    /\ convert = NoConvert
    /\ SkinIdle /\ BufIdle /\ ExtIdle /\ MeshIdle /\ WalkIdle

\* _import_animation up to the first pass of the bake loop: anim_start and
\* anim_end over the key times of the track, time = anim_start
BeginBake ==
    /\ bake.pc = "idle"
    /\ LET anim_start == IF bake.trimming
                         THEN MinTime(anim.times, 1, MinTime(anim.rotation_times, 1, Infinity))
                         ELSE 0
           anim_end   == MaxTime(anim.times, 1, MaxTime(anim.rotation_times, 1, 0))
       IN bake' = [bake EXCEPT !.pc = "baking", !.anim_start = anim_start,
                               !.anim_end = anim_end, !.time = anim_start]
    /\ UNCHANGED <<anim, convert, skinVars, bufVars, extVars, meshVars, walkVars>>

\* one pass of "while (true)": insert the key at time - anim_start, leave
\* the loop after the last key, else step the time by 1 / p_bake_fps
BakeStep ==
    /\ bake.pc = "baking"
    /\ \E junk \in JunkValues :
          LET pos  == _interpolate_track(anim.times, anim.values, bake.time,
                                         anim.interpolation, junk)
              key  == [time |-> bake.time - bake.anim_start, value |-> pos]
              next == bake.time + TicksPerSecond \div bake.fps
          IN bake' = IF bake.last
                     THEN [bake EXCEPT !.samples = position_track_insert_key(@, key), !.pc = "baked"]
                     ELSE IF next >= bake.anim_end
                     THEN [bake EXCEPT !.samples = position_track_insert_key(@, key), !.last = TRUE,
                                       !.time = bake.anim_end]
                     ELSE [bake EXCEPT !.samples = position_track_insert_key(@, key), !.time = next]
    /\ UNCHANGED <<anim, convert, skinVars, bufVars, extVars, meshVars, walkVars>>

AnimNext == BeginBake \/ BakeStep

AnimSpec == AnimInit /\ [][AnimNext]_vars

\* _parse_animations: a sampler with interpolation CATMULLROMSPLINE has
\* output_count 3; its position channel holds three values per key
SplineInit ==
    /\ \E t \in [1..NumKeys -> KeyTimes], v \in CubicValues, rt \in RotationTimes :
          anim = [times |-> t, values |-> v, interpolation |-> "CATMULLROMSPLINE",
                  rotation_times |-> rt]
    /\ \E f \in BakeRates, tr \in BOOLEAN : bake = [NoBake EXCEPT !.fps = f, !.trimming = tr]
    /\ convert = NoConvert
    /\ SkinIdle /\ BufIdle /\ ExtIdle /\ MeshIdle /\ WalkIdle

SplineSpec == SplineInit /\ [][AnimNext]_vars

\* ------------------------------------------- animations of several nodes
\* the position channels of the animated nodes: two keys each, LINEAR
TrackChannels ==
    {[times |-> <<ab[1], ab[2]>>, values |-> <<0, 50>>, interpolation |-> "LINEAR"] :
        ab \in {x \in {0, 1, 3, 6} \X {0, 1, 3, 6} : x[1] < x[2]}}

\* _import_animation before the loop over anim->get_tracks(): anim_start
\* is INFINITY with trimming and 0.0 without, anim_end is 0.0
TracksInit ==
    /\ \E t \in [1..NumTracks -> TrackChannels] : anim = [tracks |-> t]
    /\ \E f \in BakeRates, tr \in BOOLEAN :
          bake = [pc |-> "next_track", fps |-> f, trimming |-> tr,
                  anim_start |-> IF tr THEN Infinity ELSE 0, anim_end |-> 0,
                  track_i |-> 1, time |-> 0, last |-> FALSE,
                  keys |-> [k \in 1..NumTracks |-> <<>>], length |-> -1]
    /\ convert = NoConvert
    /\ SkinIdle /\ BufIdle /\ ExtIdle /\ MeshIdle /\ WalkIdle

\* the body of the loop over the tracks up to the bake loop: anim_start and
\* anim_end take in the key times of this track, time = anim_start; after
\* the last track, animation->set_length(anim_end - anim_start)
NextTrack ==
    /\ bake.pc = "next_track"
    /\ bake' = IF bake.track_i > NumTracks
               THEN [bake EXCEPT !.pc = "imported", !.length = bake.anim_end - bake.anim_start]
               ELSE [bake EXCEPT
                       !.pc = "bake_track",
                       !.anim_start = IF bake.trimming
                                      THEN MinTime(anim.tracks[bake.track_i].times, 1, @) ELSE @,
                       !.anim_end = MaxTime(anim.tracks[bake.track_i].times, 1, @),
                       !.time = IF bake.trimming
                                THEN MinTime(anim.tracks[bake.track_i].times, 1, bake.anim_start)
                                ELSE bake.anim_start,
                       !.last = FALSE]
    /\ UNCHANGED <<anim, convert, skinVars, bufVars, extVars, meshVars, walkVars>>

\* the key one pass of the bake loop inserts in the position track
TrackKey(channel, time, anim_start) ==
    [time  |-> time - anim_start,
     value |-> _interpolate_track(channel.times, channel.values, time, channel.interpolation, 0)]

\* one pass of "while (true)" for the track of node track_i
BakeTrackStep ==
    /\ bake.pc = "bake_track"
    /\ bake' = [bake EXCEPT
                  !.keys[bake.track_i] =
                      position_track_insert_key(@, TrackKey(anim.tracks[bake.track_i],
                                                            bake.time, bake.anim_start)),
                  !.pc = IF bake.last THEN "next_track" ELSE @,
                  !.track_i = IF bake.last THEN @ + 1 ELSE @,
                  !.last = ~bake.last /\ bake.time + TicksPerSecond \div bake.fps >= bake.anim_end,
                  !.time = IF bake.last THEN @
                           ELSE IF @ + TicksPerSecond \div bake.fps >= bake.anim_end
                           THEN bake.anim_end ELSE @ + TicksPerSecond \div bake.fps]
    /\ UNCHANGED <<anim, convert, skinVars, bufVars, extVars, meshVars, walkVars>>

TracksNext == NextTrack \/ BakeTrackStep

TracksSpec == TracksInit /\ [][TracksNext]_vars

\* ------------------------------------------------ loops over a whole track
\* BAKE_FPS, in frames per second of the model's ticks
BAKE_FPS == 2

\* the lengths of an animation, in ticks
AnimationLengths == 0..MaxLength

\* what the host's try_*_track_interpolate returns for the track; the call
\* has the same arguments but the time in every pass
InterpolateResults == {"OK", "ERR_INVALID_PARAMETER"}

\* a loop "double time = 0.0; bool last = false; while (true)" is entered:
\* the weight-track loop of _import_animation, or a loop of
\* _convert_animation_track
ConvertInit ==
    /\ \/ \E f \in BakeRates, e \in AnimationLengths :
             convert = [NoConvert EXCEPT !.pc = "baking", !.loop = "_import_animation",
                                         !.increment = TicksPerSecond \div f, !.anim_end = e]
       \/ \E r \in InterpolateResults, e \in AnimationLengths :
             convert = [NoConvert EXCEPT !.pc = "baking", !.loop = "_convert_animation_track",
                                         !.increment = TicksPerSecond \div BAKE_FPS,
                                         !.anim_end = e, !.interpolate = r]
    /\ anim = NoAnim /\ bake = NoBake
    /\ SkinIdle /\ BufIdle /\ ExtIdle /\ MeshIdle /\ WalkIdle

\* the rest of a pass once the key of the pass is stored: break after the
\* last key, else step the time and clamp it to the end
PassDone(c) ==
    IF c.last THEN [c EXCEPT !.pc = "done"]
    ELSE IF c.time + c.increment >= c.anim_end THEN [c EXCEPT !.last = TRUE, !.time = c.anim_end]
    ELSE [c EXCEPT !.time = @ + c.increment]

\* one pass of the weight-track loop of _import_animation
WeightBakeStep ==
    /\ convert.pc = "baking"
    /\ convert.loop = "_import_animation"
    /\ convert' = PassDone([convert EXCEPT !.times = Append(@, convert.time),
                                          !.passes = (@ + 1) % 2])
    /\ UNCHANGED <<anim, bake, skinVars, bufVars, extVars, meshVars, walkVars>>

\* one pass of a loop of _convert_animation_track:
\* ERR_CONTINUE(err != OK) starts the next pass
ConvertStep ==
    /\ convert.pc = "baking"
    /\ convert.loop = "_convert_animation_track"
    /\ convert' = IF convert.interpolate # "OK" THEN [convert EXCEPT !.passes = (@ + 1) % 2]
                  ELSE PassDone([convert EXCEPT !.times = Append(@, convert.time),
                                                !.passes = (@ + 1) % 2])
    /\ UNCHANGED <<anim, bake, skinVars, bufVars, extVars, meshVars, walkVars>>

LoopsInit == AnimInit \/ ConvertInit

\* the node tracks of an animation are baked, or one loop over a track runs
LoopsNext == (convert = NoConvert /\ AnimNext) \/ WeightBakeStep \/ ConvertStep

\* every loop that can make a pass does make it
LoopsSpec == LoopsInit /\ [][LoopsNext]_vars /\ WF_vars(LoopsNext)

\* ------------------------------------------ channels of a converted track
\* the host tracks _convert_animation_track converts to a position,
\* rotation or scale channel: the 3D track types, and the TYPE_VALUE
\* tracks by the property of their path
TrackTypes ==
    {"TYPE_SCALE_3D", "TYPE_POSITION_3D", "TYPE_ROTATION_3D",
     "TYPE_VALUE:position", "TYPE_VALUE:rotation", "TYPE_VALUE:scale"}

\* the interpolation of the channel for the interpolation type of the
\* host track
gltf_interpolation(interpolation) ==
    CASE interpolation = "INTERPOLATION_NEAREST" -> "STEP"
      [] interpolation = "INTERPOLATION_CUBIC" -> "CUBIC_SPLINE"
      [] OTHER -> "LINEAR"

\* a host track of two keys, at 0 and at the animation length, is handed
\* to _convert_animation_track with a fresh FBXAnimation::Track, whose
\* channels are empty and LINEAR
ChannelInit ==
    /\ \E tt \in TrackTypes, e \in AnimationLengths, r \in InterpolateResults,
          i \in {"INTERPOLATION_LINEAR", "INTERPOLATION_NEAREST", "INTERPOLATION_CUBIC"} :
          convert = [pc |-> "convert", track_type |-> tt, interpolation |-> i,
                     key_times |-> IF e = 0 THEN <<0>> ELSE <<0, e>>, anim_end |-> e, interpolate |-> r,
                     increment |-> TicksPerSecond \div BAKE_FPS,
                     channel |-> [interpolation |-> "LINEAR", times |-> <<>>, values |-> <<>>],
                     time |-> 0, last |-> FALSE, passes |-> 0]
    /\ anim = NoAnim /\ bake = NoBake
    /\ SkinIdle /\ BufIdle /\ ExtIdle /\ MeshIdle /\ WalkIdle

\* the channel when the keys of the host track are copied: one value per
\* key, the value of key k written as k
KeysCopied(c) ==
    [c EXCEPT !.channel = [interpolation |-> gltf_interpolation(c.interpolation),
                           times |-> c.key_times,
                           values |-> [k \in 1..Len(c.key_times) |-> k]],
              !.pc = "done"]

\* _convert_animation_track up to the bake loop of the track's branch, or
\* to its end when the keys are copied.  The branches of the 3D track
\* types leave the channel's interpolation alone before the loop; the
\* TYPE_VALUE branches store gltf_interpolation in it first.
BeginConvertTrack ==
    /\ convert.pc = "convert"
    /\ convert' =
          IF gltf_interpolation(convert.interpolation) # "CUBIC_SPLINE" THEN KeysCopied(convert)
          ELSE [convert EXCEPT
                  !.channel = [interpolation |-> IF convert.track_type \in
                                                      {"TYPE_SCALE_3D", "TYPE_POSITION_3D",
                                                       "TYPE_ROTATION_3D"}
                                                 THEN @.interpolation ELSE "CUBIC_SPLINE",
                               times |-> <<>>, values |-> <<>>],
                  !.pc = "baking", !.time = 0, !.last = FALSE]
    /\ UNCHANGED <<anim, bake, skinVars, bufVars, extVars, meshVars, walkVars>>

\* one pass of the bake loop of the branch: ERR_CONTINUE(err != OK) starts
\* the next pass; else the value and the time are pushed
BakeChannelStep ==
    /\ convert.pc = "baking"
    /\ "channel" \in DOMAIN convert
    /\ convert' = IF convert.interpolate # "OK" THEN [convert EXCEPT !.passes = (@ + 1) % 2]
                  ELSE PassDone([convert EXCEPT !.channel.values = Append(@, convert.time),
                                                !.channel.times = Append(@, convert.time),
                                                !.passes = (@ + 1) % 2])
    /\ UNCHANGED <<anim, bake, skinVars, bufVars, extVars, meshVars, walkVars>>

ChannelNext == BeginConvertTrack \/ BakeChannelStep

ChannelSpec == ChannelInit /\ [][ChannelNext]_vars

\* ====================================================== document extensions
\* Extensions are numbered; what a hook of an extension returns is chosen
\* when the hook is called.  "HANDLED" is OK with the image, or the
\* texture's source image, filled in by the extension.
Extensions == 1..NumExtensions

\* Variant that registers an extension that is present once more.
RegisterAgain(all, e, first_priority) ==
    IF first_priority THEN <<e>> \o all ELSE Append(all, e)

\* Vector::insert(0, e) / Vector::push_back(e)
register_fbx_document_extension(all, e, first_priority) ==
    IF Find(all, e) # -1 THEN all
    ELSE IF first_priority THEN <<e>> \o all ELSE Append(all, e)

\* Vector::erase(e): the first occurrence is removed
unregister_fbx_document_extension(all, e) ==
    IF Find(all, e) = -1 THEN all
    ELSE SubSeq(all, 1, Find(all, e)) \o SubSeq(all, Find(all, e) + 2, Len(all))

\* _parse_fbx_extensions: supported_extensions before the extensions add
\* theirs
BuiltInExtensions ==
    {"KHR_lights_punctual", "KHR_materials_pbrSpecularGlossiness", "KHR_texture_transform",
     "KHR_materials_unlit", "KHR_materials_emissive_strength"}

\* the names a document may list in extensionsRequired
RequiredNames == {"KHR_materials_unlit", "VENDOR_custom"}

\* _parse_fbx_extensions: ret, after the loop over extensions_required
_parse_fbx_extensions(required, supported) ==
    IF \E r \in required : r \notin supported THEN "ERR_UNAVAILABLE" ELSE "OK"

\* the stages of _parse_fbx_state that come before the images are parsed
StagesBeforeImages ==
    <<"PARSE SCENE", "PARSE NODES", "PARSE BUFFERS", "PARSE BUFFER VIEWS", "PARSE ACCESSORS">>

\* the stage that follows a hook loop
After(stage) ==
    CASE stage = "import_preflight" -> "get_supported_extensions"
      [] stage = "get_supported_extensions" -> "parse_image_data"
      [] stage = "parse_image_data" -> "parse_texture_json"
      [] stage = "parse_texture_json" -> "generate_scene_node"
      [] stage = "generate_scene_node" -> "import_post_parse"
      [] stage = "import_post_parse" -> "appended"
      [] stage = "import_node" -> "import_post"
      [] stage = "import_post" -> "generated"

RECURSIVE Enter(_, _, _), AfterParseExtensions(_, _)
\* control reaches the hook loop of a stage: a loop over no extension is
\* passed at once; the operation returns OK after its last loop
Enter(o, stage, exts) ==
    IF stage \in {"appended", "generated"} THEN [o EXCEPT !.pc = stage, !.i = 0, !.result = "OK"]
    ELSE IF stage = "parse_image_data" /\ o.parsed = <<"PARSE EXTENSIONS">>
    THEN AfterParseExtensions(o, exts)
    ELSE IF exts = <<>>
    THEN Enter(IF stage = "get_supported_extensions"
               THEN [o EXCEPT !.parsed = <<"PARSE EXTENSIONS">>] ELSE o, After(stage), exts)
    ELSE [o EXCEPT !.pc = stage, !.i = 0,
                   !.parsed = IF stage = "get_supported_extensions"
                              THEN <<"PARSE EXTENSIONS">> ELSE @]

\* _parse_fbx_state after PARSE EXTENSIONS:
\* ERR_FAIL_COND_V(err != OK, ERR_PARSE_ERROR), else the stages that follow
AfterParseExtensions(o, exts) ==
    IF _parse_fbx_extensions(o.extensions_required,
                             BuiltInExtensions \cup o.supported_extensions) # "OK"
    THEN [o EXCEPT !.pc = "appended", !.i = 0, !.result = "ERR_PARSE_ERROR"]
    ELSE Enter([o EXCEPT !.parsed = @ \o StagesBeforeImages], "parse_image_data", exts)

\* the loop body is done for extension i: on to the next one
Continue(o, exts) ==
    IF o.i + 1 < Len(exts) THEN [o EXCEPT !.i = @ + 1] ELSE Enter(o, After(o.pc), exts)

ExtInit ==
    /\ all_document_extensions = <<>>
    /\ document_extensions = <<>>
    /\ calls = <<>>
    /\ op = NoOp
    /\ SkinIdle /\ BufIdle /\ AnimIdle /\ MeshIdle /\ WalkIdle

RegisterExtension ==
    /\ op.pc = "idle"
    /\ \E e \in Extensions, first_priority \in BOOLEAN :
          all_document_extensions' =
              register_fbx_document_extension(all_document_extensions, e, first_priority)
    /\ UNCHANGED <<document_extensions, calls, op, skinVars, bufVars, animVars, meshVars, walkVars>>

UnregisterExtension ==
    /\ op.pc = "idle"
    /\ \E e \in Extensions :
          all_document_extensions' =
              unregister_fbx_document_extension(all_document_extensions, e)
    /\ UNCHANGED <<document_extensions, calls, op, skinVars, bufVars, animVars, meshVars, walkVars>>

\* append_from_file / append_from_buffer enter _parse:
\* document_extensions.clear(), then the import_preflight loop
StartImport ==
    /\ op.pc = "idle"
    /\ \E name \in {"append_from_file", "append_from_buffer"}, required \in SUBSET RequiredNames :
          op' = Enter([NoOp EXCEPT !.name = name, !.result = "running",
                                   !.extensions_required = required],
                      "import_preflight", all_document_extensions)
    /\ document_extensions' = <<>>
    /\ UNCHANGED <<all_document_extensions, calls, skinVars, bufVars, animVars, meshVars, walkVars>>

Called(hook, ext, result) == calls' = Append(calls, [hook |-> hook, ext |-> ext, result |-> result])

\* _parse: only the extensions whose import_preflight returns OK are used
ImportPreflight ==
    /\ op.pc = "import_preflight"
    /\ \E r \in {"OK", "FAILED"} :
          LET ext    == all_document_extensions[op.i + 1]
              active == IF r = "OK" THEN Append(document_extensions, ext)
                        ELSE document_extensions
          IN /\ Called("import_preflight", ext, r)
             /\ document_extensions' = active
             /\ op' = IF op.i + 1 < Len(all_document_extensions)
                      THEN [op EXCEPT !.i = @ + 1]
                      ELSE Enter(op, "get_supported_extensions", active)
    /\ UNCHANGED <<all_document_extensions, skinVars, bufVars, animVars, meshVars, walkVars>>

\* _parse_fbx_extensions: every active extension adds the names it supports
GetSupportedExtensions ==
    /\ op.pc = "get_supported_extensions"
    /\ \E r \in {"NONE", "VENDOR_custom"} :
          /\ Called("get_supported_extensions", document_extensions[op.i + 1], r)
          /\ op' = Continue([op EXCEPT !.supported_extensions = @ \cup ({r} \ {"NONE"})],
                            document_extensions)
    /\ UNCHANGED <<all_document_extensions, document_extensions, skinVars, bufVars, animVars, meshVars, walkVars>>

\* _parse_image_bytes_into_image: ERR_CONTINUE_MSG on an error, return as
\* soon as an extension has produced the image
ParseImageData ==
    /\ op.pc = "parse_image_data"
    /\ \E r \in {"OK", "FAILED", "HANDLED"} :
          /\ Called("parse_image_data", document_extensions[op.i + 1], r)
          /\ op' = IF r = "HANDLED" THEN Enter(op, "parse_texture_json", document_extensions)
                   ELSE Continue(op, document_extensions)
    /\ UNCHANGED <<all_document_extensions, document_extensions, skinVars, bufVars, animVars, meshVars, walkVars>>

\* _parse_textures: ERR_CONTINUE_MSG on an error, break as soon as an
\* extension has set the source image
ParseTextureJson ==
    /\ op.pc = "parse_texture_json"
    /\ \E r \in {"OK", "FAILED", "HANDLED"} :
          /\ Called("parse_texture_json", document_extensions[op.i + 1], r)
          /\ op' = IF r = "HANDLED" THEN Enter(op, "generate_scene_node", document_extensions)
                   ELSE Continue(op, document_extensions)
    /\ UNCHANGED <<all_document_extensions, document_extensions, skinVars, bufVars, animVars, meshVars, walkVars>>

\* _generate_scene_node (one root node): break as soon as an extension has
\* generated the node
GenerateSceneNode ==
    /\ op.pc = "generate_scene_node"
    /\ \E r \in {"OK", "HANDLED"} :
          /\ Called("generate_scene_node", document_extensions[op.i + 1], r)
          /\ op' = IF r = "HANDLED" THEN Enter(op, "import_post_parse", document_extensions)
                   ELSE Continue(op, document_extensions)
    /\ UNCHANGED <<all_document_extensions, document_extensions, skinVars, bufVars, animVars, meshVars, walkVars>>

\* append_from_file / append_from_buffer: ERR_FAIL_COND_V(err != OK, err)
ImportPostParse ==
    /\ op.pc = "import_post_parse"
    /\ \E r \in {"OK", "FAILED"} :
          /\ Called("import_post_parse", document_extensions[op.i + 1], r)
          /\ op' = IF r # "OK" THEN [op EXCEPT !.pc = "appended", !.result = r]
                   ELSE Continue(op, document_extensions)
    /\ UNCHANGED <<all_document_extensions, document_extensions, skinVars, bufVars, animVars, meshVars, walkVars>>

\* generate_scene on the state of a successful append
StartGenerateScene ==
    /\ op.pc = "appended"
    /\ op.result = "OK"
    /\ op' = Enter([op EXCEPT !.name = "generate_scene", !.result = "running"],
                   "import_node", document_extensions)
    /\ UNCHANGED <<all_document_extensions, document_extensions, calls, skinVars, bufVars,
                   animVars, meshVars, walkVars>>

\* generate_scene, the loop over the scene nodes (one node): ERR_CONTINUE
ImportNode ==
    /\ op.pc = "import_node"
    /\ \E r \in {"OK", "FAILED"} :
          /\ Called("import_node", document_extensions[op.i + 1], r)
          /\ op' = Continue(op, document_extensions)
    /\ UNCHANGED <<all_document_extensions, document_extensions, skinVars, bufVars, animVars, meshVars, walkVars>>

\* generate_scene, import_post: ERR_CONTINUE
ImportPost ==
    /\ op.pc = "import_post"
    /\ \E r \in {"OK", "FAILED"} :
          /\ Called("import_post", document_extensions[op.i + 1], r)
          /\ op' = Continue(op, document_extensions)
    /\ UNCHANGED <<all_document_extensions, document_extensions, skinVars, bufVars, animVars, meshVars, walkVars>>

ExtNext ==
    \/ RegisterExtension \/ UnregisterExtension \/ StartImport \/ ImportPreflight
    \/ GetSupportedExtensions \/ GenerateSceneNode
    \/ ParseImageData \/ ParseTextureJson \/ ImportPostParse \/ StartGenerateScene
    \/ ImportNode \/ ImportPost

ExtSpec == ExtInit /\ [][ExtNext]_vars

\* ------------------------------------- unregistration after an append
\* the extensions a caller unregisters in one call:
\* unregister_fbx_document_extension(e) removes e,
\* unregister_all_fbx_document_extensions clears the registry
Unregistrations == {<<e>> : e \in Extensions} \cup {[k \in Extensions |-> k]}

RECURSIVE Erased(_, _)
\* all_document_extensions after every extension of es was erased from it
Erased(all, es) ==
    IF es = <<>> THEN all
    ELSE Erased(unregister_fbx_document_extension(all, Head(es)), Tail(es))

\* a caller unregisters extensions between a successful append and
\* generate_scene; the call is logged per extension it names (a call that
\* finds none of them registered changes nothing)
UnregisterParsed ==
    /\ op.pc = "appended"
    /\ op.result = "OK"
    /\ \E es \in Unregistrations :
          /\ Erased(all_document_extensions, es) # all_document_extensions
          /\ all_document_extensions' = Erased(all_document_extensions, es)
          /\ calls' = calls \o [k \in 1..Len(es) |->
                                  [hook |-> "unregister", ext |-> es[k], result |-> "OK"]]
    /\ UNCHANGED <<document_extensions, op, skinVars, bufVars, animVars, meshVars, walkVars>>

UnregisterNext == ExtNext \/ UnregisterParsed

UnregisterSpec == ExtInit /\ [][UnregisterNext]_vars

\* ====================================================== duplicate skins
\* the binds of a Skin: add_bind(bone, pose), add_named_bind(name, pose);
\* the pose is the identity when the skin has no inverse binds
Binds ==
    [bone : {0, 1}, name : {<<>>}, pose : {"identity", "inverse_bind"}]
        \cup [bone : {-1}, name : {<<"a">>}, pose : {"identity", "inverse_bind"}]

\* the bind lists of a Skin
BindLists == {<<>>} \cup {<<b>> : b \in Binds} \cup {<<b, c>> : b, c \in Binds}

\* _create_skins before "Purge the duplicates!": every FBXSkin has a Skin
\* object of its own
DedupInit ==
    /\ \E n \in 1..MaxDedupSkins : \E b \in [1..n -> BindLists] :
          skins = [i \in 1..n |-> [godot_skin |-> [id |-> i - 1, binds |-> b[i]]]]
    /\ doc = <<>> /\ nodes = <<>> /\ skeletons = <<>>
    /\ pc = "remove_duplicate_skins" /\ err = "OK" /\ ran = <<>>
    /\ BufIdle /\ AnimIdle /\ ExtIdle /\ MeshIdle /\ WalkIdle

\* _create_skins: _remove_duplicate_skins(p_state)
RemoveDuplicateSkins ==
    /\ pc = "remove_duplicate_skins"
    /\ skins' = _remove_duplicate_skins(skins, 1, 2)
    /\ pc' = "done"
    /\ ran' = Append(ran, "_remove_duplicate_skins")
    /\ UNCHANGED <<doc, nodes, skeletons, err, bufVars, animVars, extVars, meshVars, walkVars>>

DedupNext == RemoveDuplicateSkins

DedupSpec == DedupInit /\ [][DedupNext]_vars

\* =============================================================== meshes
\* Weights are binary32 values, kept as rationals.
RECURSIVE Float32Exponent(_, _, _)
\* the e' >= e with 2^23 <= n * 2^(e' - e) / q, for 0 < n / q < 2^24
Float32Exponent(n, q, e) ==
    IF n \div q >= 8388608 THEN e ELSE Float32Exponent(2 * n, q, e + 1)

\* the binary32 value m / 2^e, or the one above it
Float32Nearest(sign, m, r, q, e) ==
    Rat(sign * (IF 2 * r > q \/ (2 * r = q /\ m % 2 = 1) THEN m + 1 ELSE m), Pow2(e))

\* the binary32 value nearest to a * 2^e / q
Float32Scaled(sign, n, q, e) == Float32Nearest(sign, n \div q, n % q, q, e)

\* the binary32 value nearest to p / q, ties to even: what a float
\* operation with the exact result p / q stores
RoundToFloat32(p, q) ==
    IF p = 0 THEN Rat(0, 1)
    ELSE With(Float32Exponent(Abs(p), q, 0),
              LAMBDA e : Float32Scaled(IF p < 0 THEN -1 ELSE 1, Abs(p) * Pow2(e), q, e))

\* float a + b
FloatAdd(a, b) == RoundToFloat32(a.num * b.den + b.num * a.den, a.den * b.den)

\* float a / b, for b > 0
FloatDiv(a, b) == RoundToFloat32(a.num * b.den, a.den * b.num)

RECURSIVE WeightTotal(_, _, _, _)
\* float total = 0.0; total += w[k + 0]; ...; total += w[k + wide - 1]
WeightTotal(w, k, wide, j) ==
    IF j = 0 THEN Rat(0, 1) ELSE FloatAdd(WeightTotal(w, k, wide, j - 1), w[k + j])

\* Variant that leaves the weights as they were decoded.
WeightsAsDecoded(w, wide) == w

\* "gltf does not seem to normalize the weights": every group of wide
\* weights with total > 0.0 is divided by its total
NormalizedWeights(w, wide) ==
    With([g \in 0..(Len(w) \div wide - 1) |-> WeightTotal(w, g * wide, wide, wide)],
         LAMBDA total :
            [i \in 1..Len(w) |->
                IF total[(i - 1) \div wide].num > 0
                THEN FloatDiv(w[i], total[(i - 1) \div wide])
                ELSE w[i]])

\* the weights of WEIGHTS_0 and WEIGHTS_1 side by side, JOINT_GROUP_SIZE
\* of each per vertex
MergedWeights(weights_0, weights_1) ==
    [i \in 1..(2 * Len(weights_0)) |->
        IF (i - 1) % 8 < 4 THEN weights_0[((i - 1) \div 8) * 4 + ((i - 1) % 8) + 1]
        ELSE weights_1[((i - 1) \div 8) * 4 + ((i - 1) % 8) - 4 + 1]]

\* the number of weights per vertex
WeightsWide(m) == IF m.weights_1 = <<>> THEN 4 ELSE 8

\* Variant that turns every triple one place to the left.
RotatedTriples(indices) ==
    [i \in 1..Len(indices) |-> IF (i - 1) % 3 = 2 THEN indices[i - 2] ELSE indices[i + 1]]

\* "swap around indices, convert ccw to cw for front face":
\* SWAP(w[k + 1], w[k + 2]) for k = 0, 3, ...
FlippedWinding(indices) ==
    [i \in 1..Len(indices) |->
        IF (i - 1) % 3 = 1 THEN indices[i + 1]
        ELSE IF (i - 1) % 3 = 2 THEN indices[i - 1]
        ELSE indices[i]]

RECURSIVE TuplesOf(_, _)
\* the sequences of n values of S
TuplesOf(S, n) == IF n = 0 THEN {<<>>} ELSE {Append(t, v) : t \in TuplesOf(S, n - 1), v \in S}

\* a primitive with WEIGHTS_0, or with WEIGHTS_0 and WEIGHTS_1, or with an
\* index array of whole triangles
MeshInit ==
    /\ \/ \E n \in 1..MaxVertices : \E w0 \in TuplesOf({0, 1, 3}, 4 * n) :
             mesh = [NoMesh EXCEPT !.pc = "weights",
                                   !.weights_0 = [i \in 1..(4 * n) |-> Rat(w0[i], 1)]]
       \/ \E w0 \in TuplesOf({-1, 0, 1, 3}, 4) :
             mesh = [NoMesh EXCEPT !.pc = "weights",
                                   !.weights_0 = [i \in 1..4 |-> Rat(w0[i], 1)]]
       \/ \E w0 \in TuplesOf({0, 1, 3}, 4), w1 \in TuplesOf({0, 1}, 4) :
             mesh = [NoMesh EXCEPT !.pc = "weights",
                                   !.weights_0 = [i \in 1..4 |-> Rat(w0[i], 1)],
                                   !.weights_1 = [i \in 1..4 |-> Rat(w1[i], 1)]]
       \/ \E n \in 0..MaxTriangles : \E ix \in TuplesOf({0, 1, 2}, 3 * n) :
             mesh = [NoMesh EXCEPT !.pc = "indices", !.decoded_indices = ix, !.indices = ix]
       \/ \E vs \in 1..MaxGenerated :
             mesh = [NoMesh EXCEPT !.pc = "generate", !.vertices = vs]
    /\ SkinIdle /\ BufIdle /\ AnimIdle /\ ExtIdle /\ WalkIdle

\* _parse_meshes: array[Mesh::ARRAY_WEIGHTS] of a primitive with weights
NormalizeWeights ==
    /\ mesh.pc = "weights"
    /\ mesh' = [mesh EXCEPT
                   !.weights = NormalizedWeights(
                                   IF mesh.weights_1 = <<>> THEN mesh.weights_0
                                   ELSE MergedWeights(mesh.weights_0, mesh.weights_1),
                                   WeightsWide(mesh)),
                   !.pc = "parsed"]
    /\ UNCHANGED <<skinVars, bufVars, animVars, extVars, walkVars>>

\* _parse_meshes: array[Mesh::ARRAY_INDEX] of a triangle primitive; a
\* later pass is given the array the pass before it made
FlipWinding ==
    /\ mesh.pc = "indices"
    /\ mesh.passes < MaxPasses
    /\ mesh' = [mesh EXCEPT !.indices = FlippedWinding(@), !.passes = @ + 1]
    /\ UNCHANGED <<skinVars, bufVars, animVars, extVars, walkVars>>

\* the value the generating loop writes at position pos: w[k] = k,
\* w[k + 1] = k + 2, w[k + 2] = k + 1
GeneratedAt(pos) ==
    IF pos % 3 = 1 THEN pos + 1 ELSE IF pos % 3 = 2 THEN pos - 1 ELSE pos

\* the positions for (k = 0; k < vs; k += 3) writes, in order
GeneratedPositions(vs) == [i \in 1..(3 * ((vs + 2) \div 3)) |-> i - 1]

\* "generate indices because they need to be swapped for CW/CCW": the
\* array of vs indices, and the writes that fall behind its end
GeneratedIndices(vs) ==
    [indices |-> [i \in 1..vs |-> GeneratedAt(i - 1)],
     overrun |-> [i \in 1..(Len(GeneratedPositions(vs)) - vs) |->
                    [pos |-> vs + i - 1, value |-> GeneratedAt(vs + i - 1)]]]

\* _parse_meshes: array[Mesh::ARRAY_INDEX] of a triangle primitive without
\* an index accessor.  A write behind the end of the array is undefined
\* behaviour: the run faults, or goes on with the memory behind the array
\* overwritten.
GenerateIndices ==
    /\ mesh.pc = "generate"
    /\ \E outcome \in {"parsed", "crashed"} :
          /\ outcome = "crashed" => GeneratedIndices(mesh.vertices).overrun # <<>>
          /\ mesh' = [mesh EXCEPT !.indices = GeneratedIndices(mesh.vertices).indices,
                                  !.overrun = GeneratedIndices(mesh.vertices).overrun,
                                  !.pc = outcome]
    /\ UNCHANGED <<skinVars, bufVars, animVars, extVars, walkVars>>

MeshNext == NormalizeWeights \/ FlipWinding \/ GenerateIndices

MeshSpec == MeshInit /\ [][MeshNext]_vars

\* ======================================================== node hierarchy
\* the children arrays of a node: no child, one child, or two children in
\* ascending order; a node may list itself, and any node may list any other
ChildLists ==
    {<<>>} \cup {<<c>> : c \in Nodes}
           \cup {<<cd[1], cd[2]>> : cd \in {x \in Nodes \X Nodes : x[1] < x[2]}}

\* _parse_nodes after its first loop: every node has its children array
\* and parent -1
HierarchyInit ==
    /\ \E children \in [Nodes -> ChildLists] :
          walk = [NoWalk EXCEPT !.pc = "build_hierarchy", !.children = children,
                                !.parent = [n \in Nodes |-> NoNode],
                                !.height = [n \in Nodes |-> 0]]
    /\ SkinIdle /\ BufIdle /\ AnimIdle /\ ExtIdle /\ MeshIdle

\* _parse_nodes, "build the hierarchy": a child gets the first node that
\* lists it as its parent; then _compute_node_heights is entered
BuildHierarchy ==
    /\ walk.pc = "build_hierarchy"
    /\ walk' = [walk EXCEPT !.parent = [n \in Nodes |-> ParentOfDoc(walk.children, n)],
                            !.pc = "compute_heights",
                            !.node_i = 0, !.current_i = 0]
    /\ UNCHANGED <<skinVars, bufVars, animVars, extVars, meshVars>>

\* the state _compute_node_heights is in when the while loop of node_i has
\* ended with height h
NodeWalked(k, h) ==
    [k EXCEPT !.height[k.node_i] = h,
              !.root_nodes = IF h = 0 THEN Append(@, k.node_i) ELSE @,
              !.node_i = @ + 1,
              !.current_i = k.node_i + 1,
              !.pc = IF k.node_i + 1 = NumNodes THEN "done" ELSE @]

\* the state after one pass of while (current_i >= 0), parent_i being the
\* parent of current_i and h the height counted in this pass
PassWalked(k, parent_i, h) ==
    IF parent_i >= 0 THEN [k EXCEPT !.height[k.node_i] = h, !.current_i = parent_i]
    ELSE NodeWalked(k, h)

\* _compute_node_heights: one pass of while (current_i >= 0)
HeightStep ==
    /\ walk.pc = "compute_heights"
    /\ walk' = PassWalked(walk, walk.parent[walk.current_i],
                          IF walk.parent[walk.current_i] >= 0
                          THEN (walk.height[walk.node_i] + 1) % Pow2(HeightWidth)
                          ELSE walk.height[walk.node_i])
    /\ UNCHANGED <<skinVars, bufVars, animVars, extVars, meshVars>>

HierarchyNext == BuildHierarchy \/ HeightStep

HierarchySpec == HierarchyInit /\ [][HierarchyNext]_vars /\ WF_vars(HierarchyNext)

\* ================================================================ claims
\* ------------------------------------------------------ skin claims
Last(s) == s[Len(s)]

\* the number of disjoint joint-only subtrees of a joints list
JointSubtrees(ns, jointList) ==
    Len(DSRepresentatives(UnionWithParents(ns, jointList, 1, DSEmpty)))

SkinNodes(sk) == Range(sk.joints) \cup Range(sk.non_joints)

\* the stages of _parse_fbx_state from PARSE NODES to CREATE SKELETONS,
\* applied to a document
Import(d) ==
    LET p == _parse_skins(_parse_nodes(d), d.skins)
    IN IF p.result # "OK"
       THEN [nodes |-> p.nodes, skins |-> p.skins, skeletons |-> <<>>, result |-> p.result]
       ELSE LET s == _determine_skeletons(p.nodes, p.skins)
            IN IF s.result # "OK" THEN s
               ELSE _create_skeletons(s.nodes, s.skins, s.skeletons)

\* C1: once _parse_skins and _determine_skeletons have succeeded, every
\* node flagged joint has a skeleton index, that skeleton is the only one
\* whose joints list contains the node, and the skeleton of every skin
\* contains all the skin's joints and non_joints.
C1_SkeletonPartition ==
    (pc \in {"create_skeletons", "create_skins", "done"}) =>
        /\ \A n \in Nodes : nodes[n].joint =>
              /\ nodes[n].skeleton \in 0..(Len(skeletons) - 1)
              /\ \A k \in 1..Len(skeletons) :
                    (n \in Range(skeletons[k].joints)) <=> (k - 1 = nodes[n].skeleton)
        /\ \A i \in 1..Len(skins) :
              /\ skins[i].skeleton \in 0..(Len(skeletons) - 1)
              /\ SkinNodes(skins[i]) \subseteq Range(skeletons[skins[i].skeleton + 1].joints)

C1_Witness ==
    /\ pc = "create_skeletons"
    /\ Len(skins) = 2
    /\ Len(skeletons) = 2
    /\ \A i \in 1..2 : skins[i].joints # <<>>

\* _expand_skin or _verify_skin fails for the skin listing joints sl[i], on
\* the node hierarchy ns with the joint flags _parse_skins sets
SkinFails(ns, sl, i) ==
    LET m == MarkJoints(ns, sl)
        e == _expand_skin(m, NewSkin(sl[i]))
    IN e.result # "OK" \/ _verify_skin(m, e.skin) # "OK"

\* _parse_skins reached skin i: no skin before it failed
Expanded(ns, sl, i) == \A j \in 1..(i - 1) : ~SkinFails(ns, sl, j)

\* C2: a skin whose joints form two or more disjoint joint-only subtrees
\* is expanded without indexing a node above a tree root, and all the
\* roots _expand_skin stores have the same parent.
C2_RootsShareParent ==
    /\ pc # "crashed"
    /\ (pc # "parse_nodes" /\ pc # "parse_skins") =>
          \A i \in 1..Len(skins) :
             (JointSubtrees(nodes, skins[i].joints_original) >= 2 /\ Expanded(nodes, doc.skins, i)) =>
                /\ skins[i].roots # <<>>
                /\ \A a, b \in Range(skins[i].roots) : nodes[a].parent = nodes[b].parent

C2_Witness ==
    /\ pc = "determine_skeletons"
    /\ \E i \in 1..Len(skins) :
          /\ JointSubtrees(nodes, skins[i].joints_original) >= 2
          /\ Len(skins[i].roots) >= 2
          /\ nodes[skins[i].roots[1]].parent # NoNode
          /\ \E j \in Range(skins[i].joints_original) : nodes[j].height >= 2

\* C5: when _expand_skin or _verify_skin fails for some skin, no stage
\* after _parse_skins is ever run and no skeleton exists; _parse_skins
\* itself ends the import with a parse error and leaves every skin after
\* the first failing one unexpanded.
C5_ParseSkinsFailureAborts ==
    (nodes # <<>>) =>
        LET failing == {i \in 1..Len(doc.skins) : SkinFails(nodes, doc.skins, i)}
        IN failing # {} =>
              /\ skeletons = <<>>
              /\ Range(ran) \subseteq {"_parse_nodes", "_parse_skins"}
              /\ Last(ran) = "_parse_skins" =>
                    /\ pc = "failed"
                    /\ err = "ERR_PARSE_ERROR"
                    /\ \A j \in 1..Len(skins) :
                          (\E i \in failing : i < j) => skins[j] = NewSkin(doc.skins[j])

C5_Witness ==
    /\ pc = "failed"
    /\ Last(ran) = "_parse_skins"
    /\ Len(doc.skins) = 2
    /\ SkinFails(nodes, doc.skins, 1)
    /\ Len(doc.skins[2]) = 2
    /\ skins[2] = NewSkin(doc.skins[2])

\* the document with every children array sorted ascending
CanonicalDoc(d) == [d EXCEPT !.children = [n \in Nodes |-> SortAsc(d.children[n])]]

\* the bone index of every node that has a bone: <<skeleton, bone, node>>
BoneIndexOf(skels) ==
    UNION {{<<k - 1, i - 1, skels[k].bones[i].node>> : i \in 1..Len(skels[k].bones)} :
              k \in 1..Len(skels)}

RECURSIVE PreOrder(_, _, _)
RECURSIVE PreOrderAll(_, _, _)
\* pre-order depth-first walk below node n, children in ascending index
PreOrder(ns, skel_i, n) ==
    <<n>> \o PreOrderAll(ns, skel_i,
                 SortedSeqOf({c \in Range(ns[n].children) : ns[c].skeleton = skel_i}))

PreOrderAll(ns, skel_i, list) ==
    IF list = <<>> THEN <<>>
    ELSE PreOrder(ns, skel_i, Head(list)) \o PreOrderAll(ns, skel_i, Tail(list))

\* C6: after _create_skeletons the bones of every skeleton are its nodes
\* in pre-order depth-first order with roots and children ascending; the
\* document with sorted children arrays gets the same bone index for
\* every node; and the parent bone of a bone has a smaller index.
C6_BoneOrderDeterministic ==
    (pc \in {"create_skins", "done"}) =>
        /\ \A k \in 1..Len(skeletons) :
              /\ [i \in 1..Len(skeletons[k].bones) |-> skeletons[k].bones[i].node]
                    = PreOrderAll(nodes, k - 1, SortedSeqOf(Range(skeletons[k].roots)))
              /\ \A i \in 1..Len(skeletons[k].bones) :
                    LET b == skeletons[k].bones[i]
                        p == nodes[b.node].parent
                    IN /\ b.parent < i - 1
                       /\ IF p # NoNode /\ nodes[p].skeleton = k - 1
                          THEN b.parent >= 0 /\ skeletons[k].bones[b.parent + 1].node = p
                          ELSE b.parent = -1
        /\ LET c == Import(CanonicalDoc(doc))
           IN /\ c.result = "OK"
              /\ BoneIndexOf(c.skeletons) = BoneIndexOf(skeletons)

C6_Witness ==
    /\ pc = "done"
    /\ \E n \in Nodes :
          /\ Len(doc.children[n]) >= 2
          /\ doc.children[n] # SortAsc(doc.children[n])
          /\ nodes[n].skeleton >= 0
          /\ \A i \in 1..Len(doc.children[n]) :
                nodes[doc.children[n][i]].skeleton = nodes[n].skeleton

\* node x lies in the subtree below node a
RECURSIVE Below(_, _, _)
Below(ns, x, a) ==
    IF ns[x].parent = NoNode THEN FALSE
    ELSE ns[x].parent = a \/ Below(ns, ns[x].parent, a)

\* skin i of the document lists joints [J0, J1, J2], the parent N of J2
\* is a joint of no skin, and the parent of N is J0
SkipLevelScenario(d, i) ==
    /\ Len(d.skins[i]) = 3
    /\ LET N == ParentOfDoc(d.children, d.skins[i][3])
       IN /\ N # NoNode
          /\ \A k \in 1..Len(d.skins) : Find(d.skins[k], N) < 0
          /\ ParentOfDoc(d.children, N) = d.skins[i][1]

\* what C7 promises for skin i
SkipLevelResolved(i) ==
    LET J0 == doc.skins[i][1]
        N  == ParentOfDoc(doc.children, doc.skins[i][3])
    IN /\ Len(ran) >= 2 =>
             /\ Find(skins[i].non_joints, N) >= 0
             /\ skins[i].roots = <<J0>>
       /\ Len(ran) >= 3 =>
             /\ skins[i].skeleton >= 0
             /\ skeletons[skins[i].skeleton + 1].roots = <<J0>>

\* C7 as stated: in the skip-level scenario, wherever J1 is, N becomes a
\* non-joint of the skin, skin.roots = [J0] and the skeleton's single
\* root is J0.
C7_AsStated ==
    \A i \in 1..Len(doc.skins) : SkipLevelScenario(doc, i) => SkipLevelResolved(i)

\* C7 amended: the same for a document with one skin whose joint J1 lies
\* in the subtree below J0.
C7_SkipLevelNonJoint ==
    \A i \in 1..Len(doc.skins) :
        (/\ Len(doc.skins) = 1
         /\ SkipLevelScenario(doc, i)
         /\ Below(_parse_nodes(doc), doc.skins[i][2], doc.skins[i][1])) =>
            SkipLevelResolved(i)

C7_Witness ==
    /\ pc = "done"
    /\ Len(doc.skins) = 1
    /\ SkipLevelScenario(doc, 1)
    /\ Below(nodes, doc.skins[1][2], doc.skins[1][1])
    /\ skeletons[skins[1].skeleton + 1].roots = <<doc.skins[1][1]>>
    /\ Find(skins[1].non_joints, ParentOfDoc(doc.children, doc.skins[1][3])) >= 0

\* ------------------------------------------------------ codec claims
\* the encoder call that returned the accessor the last decode read,
\* with the same for-vertex flag
EncodedAs(e) == e.accessor = decoded.accessor /\ e.for_vertex = decoded.for_vertex

\* C3: from a state whose only buffer is the main buffer, for any sequence
\* of non-empty int32 or float32 arrays encoded one after another with the
\* accessor encoders, decoding a returned accessor with the same for-vertex
\* flag succeeds and returns exactly the values that were encoded, for the
\* first accessor and for every later one.
C3_RoundTrip ==
    \A k \in 1..Len(encoded) :
        (decoded.accessor # -1 /\ EncodedAs(encoded[k]))
            => (decoded.err = "OK" /\ decoded.values = encoded[k].values)

\* the span _decode_buffer_view requires: stride * (count - 1) + element size
RequiredSpan(a, bv, for_vertex) ==
    LET rule == SkipRule(a.component_type, a.type)
    IN DecodeStride(bv, rule.element_size, for_vertex) * (a.count - 1) + rule.element_size

\* C4: _decode_buffer_view returns an error, and _decode_accessor an empty
\* array, whenever the accessor's byteOffset plus the required span exceeds
\* the buffer view's byteLength, and whenever view offset + accessor
\* byteOffset + span exceeds the length of the underlying buffer; no value
\* is decoded in either case.
C4_RangeErrors ==
    (decoded.accessor # -1 /\ buffer_views[1].buffer < Len(buffers)) =>
        LET a    == accessors[decoded.accessor + 1]
            bv   == buffer_views[a.buffer_view + 1]
            span == RequiredSpan(a, bv, decoded.for_vertex)
        IN (\/ a.byte_offset + span > bv.byte_length
            \/ bv.byte_offset + a.byte_offset + span > Len(buffers[bv.buffer + 1]))
               => (decoded.err \notin {"OK", "CRASH"} /\ decoded.values = <<>>)

\* the byte offsets, from the start of an element, the claim lists for the
\* components of a matrix
ExpectedOffsets(ct, t) ==
    CASE ct = "UNSIGNED_SHORT" /\ t = "MAT3" -> <<0, 2, 4, 6, 8, 10, 16, 18, 20>>
      [] ct \in {"BYTE", "UNSIGNED_BYTE"} /\ t = "MAT2" -> <<0, 1, 4, 5>>
      [] ct \in {"BYTE", "UNSIGNED_BYTE"} /\ t = "MAT3" -> <<0, 1, 2, 4, 5, 6, 8, 9, 10>>
      [] OTHER -> <<>>

\* the accessor has a layout the claim names
ClaimedLayout(a) ==
    \/ a.component_type = "UNSIGNED_SHORT" /\ a.type = "MAT3" /\ a.count = 1
    \/ a.component_type \in {"BYTE", "UNSIGNED_BYTE"} /\ a.type \in {"MAT2", "MAT3"}

\* C8: decoding an accessor of component type unsigned short, shape MAT3
\* and count 1 reads its 9 values, in order, from the byte offsets
\* 0,2,4,6,8,10,16,18,20 of the element; a byte-typed MAT2 skips 2 bytes
\* after every 2 components and a byte-typed MAT3 1 byte after every 3.
\* Each returned value is the component stored at its offset.
C8_MatrixSkipRule ==
    (decoded.accessor # -1 /\ decoded.err = "OK"
       /\ ClaimedLayout(accessors[decoded.accessor + 1])) =>
        LET a      == accessors[decoded.accessor + 1]
            bv     == buffer_views[a.buffer_view + 1]
            buffer == buffers[bv.buffer + 1]
            rule   == SkipRule(a.component_type, a.type)
            stride == DecodeStride(bv, rule.element_size, decoded.for_vertex)
            offs   == ExpectedOffsets(a.component_type, a.type)
            size   == _get_component_type_size(a.component_type)
            at(i, j) == bv.byte_offset + a.byte_offset + i * stride + offs[j]
        IN /\ Len(decoded.values) = a.count * Len(offs)
           /\ Len(decoded.reads) = a.count * Len(offs)
           /\ \A i \in 0..(a.count - 1), j \in 1..Len(offs) :
                 /\ decoded.reads[i * Len(offs) + j] = at(i, j)
                 /\ at(i, j) + size <= Len(buffer) =>
                       decoded.values[i * Len(offs) + j] =
                           DecodeComponent(a.component_type, a.normalized,
                               [k \in 1..size |-> buffer[at(i, j) + k]])

\* an unsigned short MAT3 of one element was decoded from bytes that all
\* lie in the buffer
C8_Witness ==
    /\ decoded.accessor # -1
    /\ decoded.err = "OK"
    /\ ~decoded.oob
    /\ accessors[1].component_type = "UNSIGNED_SHORT"
    /\ accessors[1].type = "MAT3"
    /\ accessors[1].count = 1
    /\ Len(decoded.values) = 9

\* ------------------------------------------------------ animation claims
\* the baked position track starts with the centre value of the first key
\* and ends with the centre value of the last key
EndsOnKeyValues ==
    /\ bake.samples[1].value = Rat(anim.values[2], 1)
    /\ bake.samples[Len(bake.samples)].value = Rat(anim.values[3 * NumKeys - 1], 1)

ContinuingHooks ==
    {"parse_image_data", "parse_texture_json", "import_post_parse", "import_node", "import_post"}

\* an extension before e ended the loop of call k's hook by handling the item
HandledBefore(k, e) ==
    \E m \in (k + 1)..Len(calls) :
        /\ calls[m].hook = calls[k].hook
        /\ calls[m].result = "HANDLED"
        /\ Find(document_extensions, calls[m].ext) < Find(document_extensions, e)

\* C10: when a hook of an active extension returns an error during import
\* (parse_image_data, parse_texture_json, import_post_parse, import_node,
\* import_post), the same hook is still invoked on every later active
\* extension and the enclosing operation (append_from_file,
\* append_from_buffer, generate_scene) does not fail because of that error.
C10_HookErrorsContinue ==
    op.pc \in {"appended", "generated"} =>
        \A k \in 1..Len(calls) :
            (calls[k].hook \in ContinuingHooks /\ calls[k].result = "FAILED") =>
                /\ op.result = "OK"
                /\ \A e \in Range(document_extensions) :
                      Find(document_extensions, e) > Find(document_extensions, calls[k].ext)
                          => \/ \E m \in (k + 1)..Len(calls) :
                                   calls[m].hook = calls[k].hook /\ calls[m].ext = e
                             \/ HandledBefore(k, e)

\* the extensions of the calls of a hook, in the order of the calls
CalledOf(hook, k) ==
    LET of == SelectSeq(SubSeq(calls, 1, k), LAMBDA c : c.hook = hook)
    IN [j \in 1..Len(of) |-> of[j].ext]

\* s is the start of t
IsPrefix(s, t) == Len(s) <= Len(t) /\ \A j \in 1..Len(s) : s[j] = t[j]

\* the extensions whose import_preflight returned OK, in registry order
PassedPreflight ==
    SelectSeq(all_document_extensions,
              LAMBDA e : \E k \in 1..Len(calls) :
                 calls[k].hook = "import_preflight" /\ calls[k].ext = e /\ calls[k].result = "OK")

HookLoops ==
    {"get_supported_extensions", "parse_image_data", "parse_texture_json", "generate_scene_node",
     "import_post_parse", "import_node", "import_post"}

\* the registry holds no extension twice, and every hook loop has called
\* the active extensions from the first one on, in the registry's order
RegistryInOrder ==
    /\ \A i, j \in 1..Len(all_document_extensions) :
          all_document_extensions[i] = all_document_extensions[j] => i = j
    /\ IsPrefix(CalledOf("import_preflight", Len(calls)), all_document_extensions)
    /\ op.pc \notin {"idle", "import_preflight"} => document_extensions = PassedPreflight
    /\ \A h \in HookLoops : IsPrefix(CalledOf(h, Len(calls)), document_extensions)

\* a call changes the registry by one extension: a new one is placed before
\* or after all the entries, a present one is taken out of them
RegistryStep ==
    all_document_extensions' # all_document_extensions =>
        \/ \E e \in Extensions \ Range(all_document_extensions) :
              \/ all_document_extensions' = <<e>> \o all_document_extensions
              \/ all_document_extensions' = all_document_extensions \o <<e>>
        \/ \E k \in 1..Len(all_document_extensions) :
              all_document_extensions' =
                  SubSeq(all_document_extensions, 1, k - 1)
                      \o SubSeq(all_document_extensions, k + 1, Len(all_document_extensions))

UnsupportedRequired ==
    \E r \in op.extensions_required :
        r \notin BuiltInExtensions \cup op.supported_extensions

\* C12: when extensionsRequired names an extension that neither the
\* built-in list nor any active extension supports, the parse stages after
\* PARSE EXTENSIONS (scenes, nodes, buffers, buffer views, accessors) still
\* run.
C12_LaterStagesRun ==
    (op.pc = "appended" /\ UnsupportedRequired) =>
        \A s \in Range(StagesBeforeImages) : s \in Range(op.parsed)

\* C13: every baking loop terminates: the loops of _import_animation and
\* the loops of _convert_animation_track store finitely many keys and stop
\* at the animation end, for every finite length and every outcome of the
\* host's interpolation call.
C13_BakingLoopsTerminate == <>(bake.pc = "baked" \/ convert.pc = "done")

\* ------------------------------------------------------ duplicate skins
\* the binds of two Skin objects agree in count and, per index, in bone,
\* name and pose
SameBindings(a, b) ==
    /\ Len(a.binds) = Len(b.binds)
    /\ \A k \in 1..Len(a.binds) :
          /\ a.binds[k].bone = b.binds[k].bone
          /\ a.binds[k].name = b.binds[k].name
          /\ a.binds[k].pose = b.binds[k].pose

\* the pass keeps the bindings of every slot and lets content-equal slots
\* share one Skin object
DedupStep ==
    (pc = "remove_duplicate_skins" /\ pc' = "done") =>
        /\ Len(skins') = Len(skins)
        /\ \A s \in 1..Len(skins) : SameBindings(skins'[s].godot_skin, skins[s].godot_skin)
        /\ \A a, b \in 1..Len(skins) :
              SameBindings(skins[a].godot_skin, skins[b].godot_skin)
                  => skins'[a].godot_skin.id = skins'[b].godot_skin.id

\* C14: _remove_duplicate_skins changes no skin's resolved bindings: for
\* every skin slot the bind count and, per bind index, the bone index, bind
\* name and bind pose of its godot_skin are the same after the pass as
\* before, and two slots whose skins were content-equal reference the same
\* skin object afterwards.
C14_DedupKeepsBindings == [][DedupStep]_vars

\* the pass ran over three skins of two binds each, the first and the last
\* content-equal, and left them one Skin object
C14_Witness ==
    /\ pc = "done"
    /\ ran = <<"_remove_duplicate_skins">>
    /\ Len(skins) = 3
    /\ Len(skins[1].godot_skin.binds) = 2
    /\ skins[3].godot_skin.id = 0
    /\ skins[2].godot_skin.id = 1
    /\ Len(skins[2].godot_skin.binds) = 2

\* ---------------------------------------------------------- mesh claims
\* the number of places of s that hold v
Count(s, v) == Cardinality({i \in 1..Len(s) : s[i] = v})

\* C15: the triangle winding flip (swap the 2nd and 3rd index of every
\* consecutive triple) is an involution: applied twice to an index array
\* whose length is a multiple of 3 it returns the original array, and
\* applied once it keeps the multiset of indices and the first index of
\* every triple.
C15_WindingInvolution ==
    (mesh.pc = "indices" /\ Len(mesh.decoded_indices) % 3 = 0) =>
        /\ mesh.passes % 2 = 0 => mesh.indices = mesh.decoded_indices
        /\ mesh.passes = 1 =>
              /\ Len(mesh.indices) = Len(mesh.decoded_indices)
              /\ \A v \in 0..2 : Count(mesh.indices, v) = Count(mesh.decoded_indices, v)
              /\ \A t \in 0..(Len(mesh.indices) \div 3 - 1) :
                    /\ mesh.indices[3 * t + 1] = mesh.decoded_indices[3 * t + 1]
                    /\ mesh.indices[3 * t + 2] = mesh.decoded_indices[3 * t + 3]
                    /\ mesh.indices[3 * t + 3] = mesh.decoded_indices[3 * t + 2]

\* two triangles whose 2nd and 3rd indices differ were flipped twice
C15_Witness ==
    /\ mesh.pc = "indices"
    /\ mesh.passes = 2
    /\ Len(mesh.indices) = 6
    /\ mesh.decoded_indices[2] # mesh.decoded_indices[3]
    /\ mesh.decoded_indices[5] # mesh.decoded_indices[6]

\* the decoded weights of the primitive, one group after the other
DecodedWeights ==
    IF mesh.weights_1 = <<>> THEN mesh.weights_0
    ELSE MergedWeights(mesh.weights_0, mesh.weights_1)

\* the groups of the weight array
WeightGroups == 0..(Len(mesh.weights) \div WeightsWide(mesh) - 1)

\* the places of group g
GroupPlaces(g) == (g * WeightsWide(mesh) + 1)..((g + 1) * WeightsWide(mesh))

RECURSIVE ScaledSum(_, _, _, _)
\* the sum of w[from..to], each times scale; scale is a multiple of every
\* denominator
ScaledSum(w, from, to, scale) ==
    IF from > to THEN 0
    ELSE w[from].num * (scale \div w[from].den) + ScaledSum(w, from + 1, to, scale)

\* 2^28: a multiple of the denominator of every weight of the model
WeightScale == Pow2(28)

\* the exact sum of the decoded weights of group g
DecodedSum(g) ==
    ScaledSum(DecodedWeights, g * WeightsWide(mesh) + 1, (g + 1) * WeightsWide(mesh), 1)

\* the exact sum of the weights of group g, times WeightScale
NormalizedSum(g) ==
    ScaledSum(mesh.weights, g * WeightsWide(mesh) + 1, (g + 1) * WeightsWide(mesh), WeightScale)

\* every weight of group g is the float quotient of the decoded weight and
\* the group's total
DividedByTotal(g) ==
    \A i \in GroupPlaces(g) :
        mesh.weights[i] = FloatDiv(DecodedWeights[i], Rat(DecodedSum(g), 1))

\* an all-zero group stays all zero
ZeroStaysZero(g) ==
    (\A i \in GroupPlaces(g) : DecodedWeights[i].num = 0)
        => \A i \in GroupPlaces(g) : mesh.weights[i].num = 0

\* C16 as stated: every decoded weight tuple whose component sum is
\* positive is replaced by the tuple divided by that sum, so its components
\* sum to 1; an all-zero tuple is left all zero.
C16_AsStated ==
    mesh.pc = "parsed" =>
        \A g \in WeightGroups :
            /\ DecodedSum(g) > 0 => DividedByTotal(g) /\ NormalizedSum(g) = WeightScale
            /\ ZeroStaysZero(g)

\* C16, with the sum taken within float rounding: every decoded weight
\* tuple whose component sum is positive is replaced by the tuple divided,
\* in float arithmetic, by that sum, so the components of a tuple without
\* negative weights sum to 1 within 2^-20 (each quotient is rounded to a
\* float, so the sum need not be 1 exactly); an all-zero tuple is left all
\* zero.
C16_WeightsNormalized ==
    mesh.pc = "parsed" =>
        \A g \in WeightGroups :
            /\ DecodedSum(g) > 0 =>
                  /\ DividedByTotal(g)
                  /\ (\A i \in GroupPlaces(g) : DecodedWeights[i].num >= 0)
                        => Abs(NormalizedSum(g) - WeightScale) <= WeightScale \div Pow2(20)
            /\ ZeroStaysZero(g)

\* an 8-wide tuple of total 7 was normalized: its weights are not binary
\* fractions of the total
C16_Witness ==
    /\ mesh.pc = "parsed"
    /\ mesh.weights_1 # <<>>
    /\ Len(mesh.weights) = 8
    /\ DecodedSum(0) = 7
    /\ NormalizedSum(0) # WeightScale

\* ------------------------------------------------- skin expansion claims
\* no value occurs at two places of s
DuplicateFree(s) == \A i, j \in 1..Len(s) : s[i] = s[j] => i = j

\* C17: after _expand_skin no node index occurs more than once in the
\* skin's joints list followed by its non_joints list: each list is
\* duplicate-free and no node is in both, already for a skin whose joints
\* are a parent and its child.
C17_NoNodeCapturedTwice ==
    pc = "determine_skeletons" =>
        \A i \in 1..Len(skins) : DuplicateFree(skins[i].joints \o skins[i].non_joints)

\* C18: after _determine_skeletons no skeleton has a root whose parent node
\* belongs to a different skeleton: a group whose highest node has its
\* parent inside another group ends up in the same skeleton as that group,
\* whatever the order of the skins and of the groups.
C18_NoRootUnderOtherSkeleton ==
    pc = "create_skeletons" =>
        \A s \in 1..Len(skeletons) : \A r \in Range(skeletons[s].roots) :
            nodes[r].parent >= 0 => nodes[nodes[r].parent].skeleton \in {-1, s - 1}

\* ------------------------------------------------ node hierarchy claims
\* C19: for any nodes array whose children indices are all in range, the
\* parent relation _parse_nodes builds is acyclic, so _compute_node_heights
\* terminates (and gives height(child) = height(parent) + 1).
C19_HeightsComputed == <>(walk.pc = "done")

\* ------------------------------------------------------- stride claims
\* the larger of a and b
Max(a, b) == IF a >= b THEN a ELSE b

\* the stride the claim gives: max(declared byteStride, element size),
\* rounded up to the next multiple of 4 for a vertex array
ClaimedStride(bv, element_size, for_vertex) ==
    LET s == Max(bv.byte_stride, element_size)
    IN IF for_vertex /\ s % 4 # 0 THEN s + (4 - (s % 4)) ELSE s

\* C20: the stride _decode_buffer_view uses to step between elements is
\* max(declared byteStride, elementSize), rounded up to the next multiple
\* of 4 when the for-vertex flag is set; a declared byteStride smaller than
\* the element size does not make consecutive elements overlap.
C20_StrideIsMax ==
    (decoded.accessor # -1 /\ decoded.err = "OK"
       /\ accessors[decoded.accessor + 1].count >= 2) =>
        LET a    == accessors[decoded.accessor + 1]
            bv   == buffer_views[a.buffer_view + 1]
            rule == SkipRule(a.component_type, a.type)
            step == decoded.reads[component_count_for_type(a.type) + 1] - decoded.reads[1]
        IN /\ step = ClaimedStride(bv, rule.element_size, decoded.for_vertex)
           /\ step >= rule.element_size

\* ------------------------------------------------- narrow type claims
\* the divisor of a normalized narrow signed type
NarrowScale(ct) == IF ct = "BYTE" THEN 128 ELSE 32768

\* |a - b| <= 1 / scale
WithinStep(a, b, scale) == Abs(a.num * b.den - b.num * a.den) * scale <= a.den * b.den

\* C21: for the normalized signed narrow types, encode (times 128 for
\* byte, 32768 for short, stored in an 8- or 16-bit signed integer, taken
\* modulo 2^8 or 2^16) followed by decode (divided by the same constant)
\* returns every value v of [-1, 1] to within 1/128 (1/32768) of v,
\* v = 1 and v = -1 included.
C21_NarrowRoundTrip ==
    \A k \in 1..Len(encoded) :
        (/\ encoded[k].accessor # -1
         /\ decoded.accessor = encoded[k].accessor
         /\ decoded.err = "OK" /\ ~decoded.oob) =>
            \A i \in 1..Len(encoded[k].values) :
                WithinStep(decoded.values[i], encoded[k].values[i],
                           NarrowScale(accessors[encoded[k].accessor + 1].component_type))

\* C22: for a triangle primitive without an index accessor and with
\* N >= 1 vertices, the synthesized index array has length N, holds each of
\* 0..N-1 exactly once and stores every triple (k, k+1, k+2) as
\* (k, k+2, k+1); no element outside the positions 0..N-1 is written.
C22_GeneratedIndices ==
    (mesh.vertices >= 1 /\ mesh.pc \in {"parsed", "crashed"}) =>
        /\ Len(mesh.indices) = mesh.vertices
        /\ \A v \in 0..(mesh.vertices - 1) : Count(mesh.indices, v) = 1
        /\ \A t \in 0..(mesh.vertices \div 3 - 1) :
              /\ mesh.indices[3 * t + 1] = 3 * t
              /\ mesh.indices[3 * t + 2] = 3 * t + 2
              /\ mesh.indices[3 * t + 3] = 3 * t + 1
        /\ mesh.overrun = <<>>

\* ----------------------------------------------------- spline claims
\* the baked key s was sampled at a time strictly between two keyframes
BetweenKeyframes(s) ==
    \E a, b \in 1..Len(anim.times) :
        anim.times[a] < s.time + bake.anim_start /\ s.time + bake.anim_start < anim.times[b]

\* C23: for a CATMULLROMSPLINE vector channel stored as triplets
\* (values.size() = 3 * times.size()), _interpolate_track at a query time
\* strictly between two keyframes returns the Catmull-Rom blend of the
\* neighbouring keyframe values, so the result depends on the query time:
\* a channel whose keys hold different values is not baked to the same
\* stored value for every query.
C23_CatmullRomBlends ==
    (/\ bake.pc = "baked"
     /\ anim.interpolation = "CATMULLROMSPLINE"
     /\ Len(anim.values) = 3 * Len(anim.times)
     /\ \E k \in 1..(Len(anim.times) - 1) :
           anim.times[k] < anim.times[k + 1] /\ anim.values[3 * k - 1] # anim.values[3 * k + 2]
     /\ \E i \in 1..Len(bake.samples) : BetweenKeyframes(bake.samples[i])) =>
        \E i, j \in 1..Len(bake.samples) : bake.samples[i].value # bake.samples[j].value

\* C29: for every interpolation mode and every query time, when times is
\* non-empty and the values list passes the function's own size check,
\* every element _interpolate_track reads from the values list has an
\* index in [0, values.size()); stated of the call the bake loop makes at
\* bake.time.
C29_ReadsInsideValues ==
    (/\ bake.pc = "baking"
     /\ Len(anim.times) > 0 /\ Len(anim.values) > 0
     /\ Len(anim.times) = Len(anim.values) \div
                              (IF anim.interpolation = "CUBIC_SPLINE" THEN 3 ELSE 1)) =>
        \A i \in ValuesRead(anim.times, anim.values, bake.time, anim.interpolation) :
            0 <= i /\ i < Len(anim.values)

\* C24: in _import_animation every baked position track of one animation
\* covers the full animation span: its first key is at time 0 and its last
\* key at the final animation length (the latest key time over all tracks
\* minus the start time), whatever the order of the nodes' tracks and
\* whether or not trimming is enabled; no key is at a negative time.
C24_TracksCoverSpan ==
    bake.pc = "imported" =>
        \A k \in 1..NumTracks :
            /\ bake.keys[k] # <<>>
            /\ bake.keys[k][1].time = 0
            /\ bake.keys[k][Len(bake.keys[k])].time = bake.length
            /\ \A i \in 1..Len(bake.keys[k]) : bake.keys[k][i].time >= 0

\* C25: _convert_animation_track on a host position, rotation or scale
\* track with cubic interpolation (the 3D track types and the TYPE_VALUE
\* property tracks) yields a channel tagged LINEAR whose values list has
\* one value per time, the times running from 0 in steps of 1 / BAKE_FPS up
\* to the animation length; the channel is never left tagged CUBICSPLINE.
C25_CubicBakedLinear ==
    ("channel" \in DOMAIN convert /\ convert.pc = "done"
       /\ convert.interpolation = "INTERPOLATION_CUBIC") =>
        /\ convert.channel.interpolation = "LINEAR"
        /\ Len(convert.channel.values) = Len(convert.channel.times)
        /\ convert.channel.times[1] = 0
        /\ convert.channel.times[Len(convert.channel.times)] = convert.anim_end
        /\ \A k \in 1..(Len(convert.channel.times) - 1) :
              convert.channel.times[k + 1] - convert.channel.times[k] <= convert.increment

\* the end of the range _decode_buffer_view checks against the length of
\* the view and of the buffer before it reads accessor a
CheckedEnd(a, for_vertex) ==
    LET bv == buffer_views[a.buffer_view + 1]
        element_size == SkipRule(a.component_type, a.type).element_size
    IN bv.byte_offset + a.byte_offset
       + DecodeStride(bv, element_size, for_vertex) * (a.count - 1) + element_size

\* C28: every byte _decode_buffer_view reads lies inside the range it
\* bounds-checked: at an offset below view offset + accessor byteOffset +
\* stride * (count - 1) + elementSize, for every component type and shape,
\* the byte and short matrix shapes of the padding skip table included.
C28_ReadsInsideCheckedRange ==
    (decoded.accessor >= 0 /\ decoded.err \in {"OK", "CRASH"}) =>
        LET a == accessors[decoded.accessor + 1]
        IN \A idx \in 1..Len(decoded.reads) :
              decoded.reads[idx] + _get_component_type_size(a.component_type)
                  <= CheckedEnd(a, decoded.for_vertex)

\* C30: once unregister_fbx_document_extension(e) or
\* unregister_all_fbx_document_extensions has returned, no later hook loop
\* invokes e: a generate_scene made after the unregistration, on a state
\* parsed before it, does not call import_node or import_post of e.
C30_UnregisteredNotCalled ==
    \A i \in 1..Len(calls) : \A j \in (i + 1)..Len(calls) :
        (calls[i].hook = "unregister" /\ calls[j].hook # "unregister") =>
            calls[j].ext # calls[i].ext

\* _create_skeletons has returned OK
SkeletonsCreated == pc \in {"create_skins", "done"}

\* the bones of skeleton k whose node has its parent node in skeleton k
BonesWithParent(k) ==
    {i \in 1..Len(skeletons[k].bones) :
        LET n == skeletons[k].bones[i].node
        IN nodes[n].parent >= 0 /\ nodes[nodes[n].parent].skeleton = k - 1}

\* C27: in _create_skeletons all bone names of one skeleton are pairwise
\* distinct after deduplication, also when node names collide or are
\* empty, so for every node whose parent node is in the same skeleton the
\* name lookup resolves to the bone created for that parent node.
C27_ParentBoneResolved ==
    /\ ~(pc = "failed" /\ ran[Len(ran)] = "_create_skeletons")
    /\ SkeletonsCreated =>
        \A k \in 1..Len(skeletons) :
            LET bones == skeletons[k].bones
            IN /\ \A i \in 1..Len(bones) : \A j \in 1..Len(bones) :
                      i # j => bones[i].name # bones[j].name
               /\ \A i \in BonesWithParent(k) :
                      /\ bones[i].parent >= 0
                      /\ bones[bones[i].parent + 1].node = nodes[bones[i].node].parent

\* a skeleton holds the bones of two nodes the document names alike, the
\* second of them below a parent of the same skeleton
C27_Witness ==
    /\ SkeletonsCreated
    /\ \E k \in 1..Len(skeletons) : \E i \in BonesWithParent(k) :
          \E j \in 1..(i - 1) :
              doc.names[skeletons[k].bones[i].node] = doc.names[skeletons[k].bones[j].node]

\* the sparse accessor was decoded: its three parts passed their checks
SparseDecoded ==
    /\ decoded.accessor >= 0
    /\ "indices" \in DOMAIN decoded
    /\ Len(decoded.base) > 0 /\ Len(decoded.indices) > 0 /\ Len(decoded.data) > 0

\* the sparse index of entry i
SparseIndex(i) == Truncated(decoded.indices[i].num, decoded.indices[i].den)

\* C26: for a sparse accessor _decode_accessor returns the dense base
\* values (all zero without a base buffer view), except that for each
\* sparse entry i and component k the position index[i] * componentCount + k
\* holds sparseValues[i * componentCount + k]; positions of elements that no
\* sparse index names keep the base value, and with a repeated index the
\* later entry wins.
C26_SparseScatter ==
    SparseDecoded =>
        LET a == accessors[decoded.accessor + 1]
            cc == component_count_for_type(a.type)
            n == a.sparse_count
        IN /\ decoded.err = "OK"
           /\ Len(decoded.values) = a.count * cc
           /\ a.buffer_view < 0 => \A pos \in 1..Len(decoded.base) : decoded.base[pos].num = 0
           /\ \A i \in 1..n : \A k \in 0..(cc - 1) :
                  (\A l \in (i + 1)..n : SparseIndex(l) # SparseIndex(i)) =>
                      /\ SparseIndex(i) * cc + k < Len(decoded.values)
                      /\ decoded.values[SparseIndex(i) * cc + k + 1]
                             = decoded.data[(i - 1) * cc + k + 1]
           /\ \A pos \in 0..(a.count * cc - 1) :
                  (\A i \in 1..n : SparseIndex(i) # pos \div cc) =>
                      decoded.values[pos + 1] = decoded.base[pos + 1]

\* the scatter for sparse indices that name elements of the accessor
SparseScatterInRange ==
    (SparseDecoded /\ \A i \in 1..accessors[1].sparse_count : SparseIndex(i) < accessors[1].count)
        => C26_SparseScatter

====
